---------------------------- MODULE Spec2Model ----------------------------
(***************************************************************************)
(* Model of the manifest reconstruction of synaptic-canvas-dolt            *)
(* (pkg/models): BuildManifest and the field parsers it calls.             *)
(*                                                                         *)
(* The repository holds three versions of BuildManifest:                   *)
(*   "manifest.go"  src/src/pkg/models/manifest.go: artifacts are rich     *)
(*                  entries, every file type is grouped, comma-separated   *)
(*                  tags and choices;                                      *)
(*   "json-draft"   src/unnamed/part_004:430-625: JSON-array tags and      *)
(*                  choices, flat Files and Deps lists;                    *)
(*   "comma-draft"  src/unnamed/part_004:627-820: artifacts are bare       *)
(*                  destination paths, file types outside the table are    *)
(*                  skipped, comma-separated tags and choices.             *)
(* Each is modelled by its own operator and its own action.                *)
(*                                                                         *)
(* Spec calls BuildManifest on one set of arguments and then calls it a    *)
(* second time; SpecParse calls TagsList or ChoicesList, of either         *)
(* convention, on one text.                                                *)
(*                                                                         *)
(* Text that the code scans is a sequence of one-character strings; text   *)
(* that the code only copies is a string.  JSON text is a sequence of      *)
(* lexical tokens.  A Go slice or map is a record [isNil, v], so that nil  *)
(* and empty stay distinct.  A *string is a record [present, v].           *)
(***************************************************************************)
EXTENDS Integers, Sequences, FiniteSets, TLC

VARIABLES
    draft,      \* which version of the code runs
    pkg, files, deps, hooks, questions,     \* the arguments of BuildManifest
    pc,         \* what has been called so far
    res,        \* what BuildManifest returned: [m, err]
    files2,     \* the files argument of a second call
    res2,       \* what the second call returned
    out,        \* what TagsList or ChoicesList returned: [val, err]
    pluralKeys, \* the package variable fileTypePluralKey, shared by all calls
    args,       \* the arguments of each concurrent call of BuildManifest
    task,       \* where each concurrent call stands: [pc, i, m, ret]
    dir,        \* the log directory: file name -> [content, mod]
    now,        \* the clock: [Y, M, D, h]
    fspc,       \* which function of the log rotation has been called
    fsret,      \* the error that function returned
    stdout,     \* what has been written to os.Stdout
    stderr,     \* what has been written to os.Stderr
    env,        \* whether the log file can be opened
    setup,      \* the arguments of logging.Setup: [verbose, quiet]
    logger,     \* the logger that Setup returned: [multi, handlers]
    logged,     \* the last record logged and where it went
    logpc,      \* how far the logging has come
    flags,      \* the values of the persistent flags of the root command
    cmdpc,      \* how far the execution of the root command has come
    cmdErr,     \* the error that the execution returned
    formatter,  \* the Formatter: [JSON, Quiet, ErrW]
    fcall,      \* the last call on the Formatter: [n, op, msg]
    conns,      \* the connections of the pool of sql.DB: the branch each is on
    sqlcall     \* the last call on the SQLClient: [n, op, branch, read, err]

\* the variables of the concurrent calls
goVars == <<pluralKeys, args, task>>

\* the variables of the parts of the program that a specification leaves out
\* keep the value they start with
\* the variables of the log directory
fsVars == <<dir, now, fspc, fsret>>

\* the standard streams
ioVars == <<stdout, stderr>>

\* the variables of the logging
logVars == <<env, setup, logger, logged, logpc>>

\* the variables of the root command
cmdVars == <<flags, cmdpc, cmdErr>>

\* the variables of the output formatter
fmtVars == <<formatter, fcall>>

\* the variables of the database client
sqlVars == <<conns, sqlcall>>

others == <<goVars, fsVars, ioVars, logVars, cmdVars, fmtVars, sqlVars>>

vars == <<draft, pkg, files, deps, hooks, questions, pc, res, files2, res2, out, others>>

\* no concurrent call is running
GoIdle == pluralKeys = <<>> /\ args = <<>> /\ task = <<>>

\* no function of the log rotation is running
FsIdle == dir = <<>> /\ now = <<>> /\ fspc = "idle" /\ fsret = <<>>

IoIdle == stdout = <<>> /\ stderr = <<>>

\* no logger has been set up
LogIdle ==
    env = "ok" /\ setup = <<>> /\ logger = <<>> /\ logged = <<>> /\ logpc = "idle"

\* the root command is not executed
CmdIdle == flags = <<>> /\ cmdpc = "idle" /\ cmdErr = <<>>

\* no Formatter has been made
FmtIdle == formatter = <<>> /\ fcall = <<>>

\* no database client is open
SqlIdle == conns = <<>> /\ sqlcall = <<>>

OthersIdle == GoIdle /\ FsIdle /\ IoIdle /\ LogIdle /\ CmdIdle /\ FmtIdle /\ SqlIdle

-----------------------------------------------------------------------------
(* Go values *)

NilSlice == [isNil |-> TRUE, v |-> <<>>]
Slice(s) == [isNil |-> FALSE, v |-> s]
\* append(s, x): appending to a nil slice allocates
AppendSlice(s, x) == [isNil |-> FALSE, v |-> Append(s.v, x)]

NilMap == [isNil |-> TRUE, v |-> <<>>]
MakeMap(f) == [isNil |-> FALSE, v |-> f]

Absent == [present |-> FALSE, v |-> ""]
Present(s) == [present |-> TRUE, v |-> s]

NilErr == [isNil |-> TRUE, msg |-> <<>>]
Errorf(parts) == [isNil |-> FALSE, msg |-> parts]

\* the text of the error json.Unmarshal returns, which the builders wrap (%w)
JSONErr == "<json error>"

-----------------------------------------------------------------------------
(* strings.TrimSpace and strings.Split(s, ",") on character sequences *)

IsSpace(c) == c \in {" ", "\t", "\n", "\r"}

RECURSIVE TrimLeft(_)
TrimLeft(s) ==
    IF s = <<>> THEN <<>>
    ELSE IF IsSpace(Head(s)) THEN TrimLeft(Tail(s)) ELSE s

RECURSIVE TrimRight(_)
TrimRight(s) ==
    IF s = <<>> THEN <<>>
    ELSE IF IsSpace(s[Len(s)]) THEN TrimRight(SubSeq(s, 1, Len(s) - 1)) ELSE s

TrimSpace(s) == TrimRight(TrimLeft(s))

RECURSIVE SplitAcc(_, _, _)
SplitAcc(s, cur, acc) ==
    IF s = <<>> THEN Append(acc, cur)
    ELSE IF Head(s) = ","
         THEN SplitAcc(Tail(s), <<>>, Append(acc, cur))
         ELSE SplitAcc(Tail(s), Append(cur, Head(s)), acc)

SplitComma(s) == SplitAcc(s, <<>>, <<>>)

\* a version of the loop that keeps the parts that are empty after trimming
TrimmedNonEmpty_KeepEmpty(parts) ==
    [i \in 1..Len(parts) |-> TrimSpace(parts[i])]

\* the loop of TagsList / ChoicesList: trim each part, keep the non-empty ones
RECURSIVE TrimmedNonEmpty(_)
TrimmedNonEmpty(parts) ==
    IF parts = <<>> THEN <<>>
    ELSE LET t == TrimSpace(Head(parts))
         IN  IF t # <<>> THEN <<t>> \o TrimmedNonEmpty(Tail(parts))
             ELSE TrimmedNonEmpty(Tail(parts))

-----------------------------------------------------------------------------
(* JSON text as a token sequence, and encoding/json's Unmarshal *)

P(c) == [t |-> "punct", v |-> c]      \* one of { } [ ] : ,
S(x) == [t |-> "string", v |-> x]     \* a string literal, x its content
L(x) == [t |-> "lit", v |-> x]        \* null, true, false
N(x) == [t |-> "num", v |-> x]        \* a number literal
G(x) == [t |-> "garbage", v |-> x]    \* text that is no JSON token
W == [t |-> "ws", v |-> " "]          \* insignificant whitespace

\* len(raw) > 0 && string(raw) != "null"
IsSet(raw) == Len(raw) > 0 /\ raw # <<L("null")>>

StripWS(raw) == SelectSeq(raw, LAMBDA tok : tok.t # "ws")

\* decoded values (interface{}): kind k and payload v
JNull == [k |-> "null", v |-> ""]
JStr(x) == [k |-> "string", v |-> x]
JBool(x) == [k |-> "bool", v |-> x]
JNum(x) == [k |-> "number", v |-> x]
JArr(s) == [k |-> "array", v |-> s]
JObj(f) == [k |-> "object", v |-> f]

ParseFail == [ok |-> FALSE, val |-> JNull, next |-> 0]
ParseOk(val, next) == [ok |-> TRUE, val |-> val, next |-> next]

\* members <<key, value>> in text order; a repeated key keeps its last value
MembersToMap(ms) ==
    LET keys == {ms[i][1] : i \in 1..Len(ms)}
        last(key) == CHOOSE i \in 1..Len(ms) :
                        /\ ms[i][1] = key
                        /\ \A j \in 1..Len(ms) : ms[j][1] = key => j <= i
    IN  [key \in keys |-> ms[last(key)][2]]

RECURSIVE ParseValue(_, _), ParseMembers(_, _, _), ParseElements(_, _, _)
\* the value starting at token i of t: [ok, val, next]
ParseValue(t, i) ==
    IF i > Len(t) THEN ParseFail
    ELSE LET tok == t[i] IN
         CASE tok.t = "lit" ->
                 IF tok.v = "null" THEN ParseOk(JNull, i + 1)
                 ELSE ParseOk(JBool(tok.v), i + 1)
           [] tok.t = "string" -> ParseOk(JStr(tok.v), i + 1)
           [] tok.t = "num" -> ParseOk(JNum(tok.v), i + 1)
           [] tok = P("{") ->
                 IF i + 1 <= Len(t) /\ t[i + 1] = P("}")
                 THEN ParseOk(JObj(<<>>), i + 2)
                 ELSE ParseMembers(t, i + 1, <<>>)
           [] tok = P("[") ->
                 IF i + 1 <= Len(t) /\ t[i + 1] = P("]")
                 THEN ParseOk(JArr(<<>>), i + 2)
                 ELSE ParseElements(t, i + 1, <<>>)
           [] OTHER -> ParseFail

\* "key" : value, then , or }
ParseMembers(t, i, acc) ==
    IF i + 1 > Len(t) \/ t[i].t # "string" \/ t[i + 1] # P(":") THEN ParseFail
    ELSE LET r == ParseValue(t, i + 2) IN
         IF ~r.ok \/ r.next > Len(t) THEN ParseFail
         ELSE LET acc2 == Append(acc, <<t[i].v, r.val>>) IN
              IF t[r.next] = P("}") THEN ParseOk(JObj(MembersToMap(acc2)), r.next + 1)
              ELSE IF t[r.next] = P(",") THEN ParseMembers(t, r.next + 1, acc2)
              ELSE ParseFail

\* value, then , or ]
ParseElements(t, i, acc) ==
    LET r == ParseValue(t, i) IN
    IF ~r.ok \/ r.next > Len(t) THEN ParseFail
    ELSE LET acc2 == Append(acc, r.val) IN
         IF t[r.next] = P("]") THEN ParseOk(JArr(acc2), r.next + 1)
         ELSE IF t[r.next] = P(",") THEN ParseElements(t, r.next + 1, acc2)
         ELSE ParseFail

\* r is the value read from the start of t: nothing may follow it
WholeText(t, r) == IF r.ok /\ r.next = Len(t) + 1 THEN r ELSE ParseFail

\* the whole text is one JSON value
ParseJSON(raw) == WholeText(StripWS(raw), ParseValue(StripWS(raw), 1))

\* json.Unmarshal(raw, &m) for m map[string]any, m nil before the call:
\* null leaves m nil, an object fills a new map, anything else is an error
UnmarshalMapOf(r) ==
    IF ~r.ok THEN [ok |-> FALSE, val |-> NilMap]
    ELSE IF r.val.k = "null" THEN [ok |-> TRUE, val |-> NilMap]
    ELSE IF r.val.k = "object" THEN [ok |-> TRUE, val |-> MakeMap(r.val.v)]
    ELSE [ok |-> FALSE, val |-> NilMap]

UnmarshalMap(raw) == UnmarshalMapOf(ParseJSON(raw))

\* json.Unmarshal(raw, &s) for s []string, s nil before the call: null leaves
\* s nil, an array of strings (a null element decodes to "") fills a new
\* slice, anything else is an error
UnmarshalStringsOf(r) ==
    IF ~r.ok THEN [ok |-> FALSE, val |-> NilSlice]
    ELSE IF r.val.k = "null" THEN [ok |-> TRUE, val |-> NilSlice]
    ELSE IF r.val.k = "array"
              /\ \A i \in 1..Len(r.val.v) : r.val.v[i].k \in {"string", "null"}
         THEN [ok |-> TRUE,
               val |-> Slice([i \in 1..Len(r.val.v) |-> r.val.v[i].v])]
    ELSE [ok |-> FALSE, val |-> NilSlice]

UnmarshalStrings(raw) == UnmarshalStringsOf(ParseJSON(raw))

-----------------------------------------------------------------------------
(* Field parsers of the package and question rows *)

\* comma-separated convention
TagsList(p) ==
    IF p.Tags = <<>> THEN Slice(<<>>)
    ELSE Slice(TrimmedNonEmpty(SplitComma(p.Tags)))

ChoicesList(q) ==
    IF q.Choices = <<>> THEN Slice(<<>>)
    ELSE Slice(TrimmedNonEmpty(SplitComma(q.Choices)))

\* a version that reads a text it cannot parse as no tags
TagsListJSON_Lenient(p) ==
    IF Len(p.Tags) = 0 \/ p.Tags = <<L("null")>>
    THEN [val |-> Slice(<<>>), err |-> NilErr]
    ELSE LET u == UnmarshalStrings(p.Tags) IN
         IF ~u.ok THEN [val |-> Slice(<<>>), err |-> NilErr]
         ELSE [val |-> u.val, err |-> NilErr]

\* JSON-array convention: [val, err]
TagsListJSON(p) ==
    IF Len(p.Tags) = 0 \/ p.Tags = <<L("null")>>
    THEN [val |-> Slice(<<>>), err |-> NilErr]
    ELSE LET u == UnmarshalStrings(p.Tags) IN
         IF ~u.ok THEN [val |-> NilSlice, err |-> Errorf(<<"parsing tags: ", JSONErr>>)]
         ELSE [val |-> u.val, err |-> NilErr]

ChoicesListJSON(q) ==
    IF Len(q.Choices) = 0 \/ q.Choices = <<L("null")>>
    THEN [val |-> Slice(<<>>), err |-> NilErr]
    ELSE LET u == UnmarshalStrings(q.Choices) IN
         IF ~u.ok THEN [val |-> NilSlice, err |-> Errorf(<<"parsing choices: ", JSONErr>>)]
         ELSE [val |-> u.val, err |-> NilErr]

-----------------------------------------------------------------------------
(* BuildManifest of src/src/pkg/models/manifest.go *)

NilPtr == [isNil |-> TRUE, val |-> <<>>]
Ptr(x) == [isNil |-> FALSE, val |-> x]

Return(m, e) == [m |-> m, err |-> e]

fileTypePluralKey ==
    [skill |-> "skills", agent |-> "agents", command |-> "commands",
     script |-> "scripts", hook |-> "hooks", config |-> "configs"]

\* "if pkg == nil": the first statement of all three versions
PkgIsNil(p) == p.isNil

\* omit InstallScope if "any"
InstallScopeOf(p) == IF p.InstallScope # "any" THEN p.InstallScope ELSE ""

\* a version that fills in a value for an absent column
CopyOptional_Defaulted(o) == IF o.present THEN o.v ELSE "unknown"

\* "if x != nil { m.X = *x }"
CopyOptional(o) == IF o.present THEN o.v ELSE ""

\* a version that puts an empty map in place of a text it cannot parse
ParseMapField_EmptyOnError(raw) ==
    IF IsSet(raw)
    THEN LET u == UnmarshalMap(raw) IN
         IF u.ok THEN u ELSE [ok |-> TRUE, val |-> MakeMap(<<>>)]
    ELSE [ok |-> TRUE, val |-> NilMap]

\* a version that starts from an allocated map
ParseMapField_NeverNil(raw) ==
    IF IsSet(raw)
    THEN LET u == UnmarshalMap(raw) IN
         IF u.ok /\ u.val.isNil THEN [ok |-> TRUE, val |-> MakeMap(<<>>)] ELSE u
    ELSE [ok |-> TRUE, val |-> MakeMap(<<>>)]

\* "if len(raw) > 0 && string(raw) != "null" { json.Unmarshal(raw, &m.X) }"
ParseMapField(raw) ==
    IF IsSet(raw) THEN UnmarshalMap(raw) ELSE [ok |-> TRUE, val |-> NilMap]

\* a version that assigns instead of appending: m[key] = []T{x}
MapAppend_Overwrite(m, key, x) ==
    IF key \in DOMAIN m THEN [m EXCEPT ![key] = <<x>>]
    ELSE m @@ (key :> <<x>>)

\* m[key] = append(m[key], x)
MapAppend(m, key, x) ==
    IF key \in DOMAIN m THEN [m EXCEPT ![key] = Append(@, x)]
    ELSE m @@ (key :> <<x>>)

\* a version that falls back to the bare type name
PluralKey_Bare(ft) ==
    IF ft \in DOMAIN fileTypePluralKey THEN fileTypePluralKey[ft] ELSE ft

\* the group key of a file type: table entry, else the type name + "s"
PluralKey(ft) ==
    IF ft \in DOMAIN fileTypePluralKey THEN fileTypePluralKey[ft] ELSE ft \o "s"

\* a version whose entries carry the file's content
RECURSIVE GroupFiles_WithContent(_, _)
GroupFiles_WithContent(fs, acc) ==
    IF fs = <<>> THEN [ok |-> TRUE, val |-> acc, err |-> NilErr]
    ELSE LET f == Head(fs)
             fm == ParseMapField(f.Frontmatter)
             mf == [DestPath |-> f.DestPath, SHA256 |-> f.SHA256,
                    FileType |-> f.FileType, ContentType |-> f.ContentType,
                    IsTemplate |-> f.IsTemplate, Frontmatter |-> fm.val,
                    Content |-> f.Content]
         IN  IF ~fm.ok
             THEN [ok |-> FALSE, val |-> <<>>,
                   err |-> Errorf(<<"building manifest: parsing frontmatter for ",
                                    f.DestPath, ": ", JSONErr>>)]
             ELSE GroupFiles_WithContent(Tail(fs),
                                         MapAppend(acc, PluralKey(f.FileType), mf))

\* the loop over files: [ok, val, err]; stops at the first bad frontmatter
RECURSIVE GroupFiles(_, _)
GroupFiles(fs, acc) ==
    IF fs = <<>> THEN [ok |-> TRUE, val |-> acc, err |-> NilErr]
    ELSE LET f == Head(fs)
             fm == ParseMapField(f.Frontmatter)
             mf == [DestPath |-> f.DestPath, SHA256 |-> f.SHA256,
                    FileType |-> f.FileType, ContentType |-> f.ContentType,
                    IsTemplate |-> f.IsTemplate, Frontmatter |-> fm.val]
         IN  IF ~fm.ok
             THEN [ok |-> FALSE, val |-> <<>>,
                   err |-> Errorf(<<"building manifest: parsing frontmatter for ",
                                    f.DestPath, ": ", JSONErr>>)]
             ELSE GroupFiles(Tail(fs), MapAppend(acc, PluralKey(f.FileType), mf))

\* "if len(files) > 0 { m.Artifacts = make(...); for ... }"
Artifacts(fs) ==
    IF Len(fs) > 0
    THEN LET g == GroupFiles(fs, <<>>) IN
         [ok |-> g.ok, val |-> IF g.ok THEN MakeMap(g.val) ELSE NilMap, err |-> g.err]
    ELSE [ok |-> TRUE, val |-> NilMap, err |-> NilErr]

\* a version that tests the spec untrimmed and appends it untrimmed
RequiresEntry_Untrimmed(d) ==
    IF d.DepSpec # <<>> THEN d.DepName \o <<" ">> \o d.DepSpec ELSE d.DepName

\* "dep_name" or "dep_name dep_spec"
RequiresEntry(d) ==
    LET spec == TrimSpace(d.DepSpec)
    IN  IF spec # <<>> THEN d.DepName \o <<" ">> \o spec ELSE d.DepName

RECURSIVE RequiresLoop(_, _)
RequiresLoop(ds, acc) ==
    IF ds = <<>> THEN acc
    ELSE IF Head(ds).DepType = "tool"
         THEN RequiresLoop(Tail(ds), AppendSlice(acc, RequiresEntry(Head(ds))))
         ELSE RequiresLoop(Tail(ds), acc)

Requires(ds) == RequiresLoop(ds, NilSlice)

\* a version that keeps the blocking hooks only
ConvertHooks_BlockingOnly(hs) ==
    Slice(SelectSeq([i \in 1..Len(hs) |->
                       [Event |-> hs[i].Event, Matcher |-> hs[i].Matcher,
                        ScriptPath |-> hs[i].ScriptPath, Priority |-> hs[i].Priority,
                        Blocking |-> hs[i].Blocking]],
                    LAMBDA h : h.Blocking))

ConvertHooks(hs) ==
    Slice([i \in 1..Len(hs) |->
            [Event |-> hs[i].Event, Matcher |-> hs[i].Matcher,
             ScriptPath |-> hs[i].ScriptPath, Priority |-> hs[i].Priority,
             Blocking |-> hs[i].Blocking]])

\* mq.Choices = q.ChoicesList()
QuestionChoices(q) == ChoicesList(q)

\* a version that orders the entries by sort_order
ConvertQuestions_Sorted(qs) ==
    LET n == Len(qs)
        perm == CHOOSE f \in [1..n -> 1..n] :
                   /\ \A i, j \in 1..n : i # j => f[i] # f[j]
                   /\ \A i, j \in 1..n :
                         i < j => qs[f[i]].SortOrder <= qs[f[j]].SortOrder
    IN  Slice([i \in 1..n |->
                 [QuestionID |-> qs[perm[i]].QuestionID, Prompt |-> qs[perm[i]].Prompt,
                  Type |-> qs[perm[i]].Type, DefaultVal |-> qs[perm[i]].DefaultVal,
                  Choices |-> QuestionChoices(qs[perm[i]]),
                  SortOrder |-> qs[perm[i]].SortOrder]])

ConvertQuestions(qs) ==
    Slice([i \in 1..Len(qs) |->
            [QuestionID |-> qs[i].QuestionID, Prompt |-> qs[i].Prompt,
             Type |-> qs[i].Type, DefaultVal |-> qs[i].DefaultVal,
             Choices |-> QuestionChoices(qs[i]), SortOrder |-> qs[i].SortOrder]])

\* a version that parses the options before the variables
BuildManifestBody_OptionsFirst(p, fs, ds, hs, qs) ==
    LET variables == ParseMapField(p.Variables)
        options == ParseMapField(p.Options)
        artifacts == Artifacts(fs)
    IN  IF ~options.ok
        THEN Return(NilPtr, Errorf(<<"building manifest: parsing options: ", JSONErr>>))
        ELSE IF ~variables.ok
        THEN Return(NilPtr, Errorf(<<"building manifest: parsing variables: ", JSONErr>>))
        ELSE IF ~artifacts.ok
        THEN Return(NilPtr, artifacts.err)
        ELSE Return(Ptr([ID |-> p.ID, Name |-> p.Name, Version |-> p.Version,
                         AgentVariant |-> p.AgentVariant, SHA256 |-> p.SHA256,
                         InstallScope |-> InstallScopeOf(p),
                         Description |-> CopyOptional(p.Description),
                         Author |-> CopyOptional(p.Author),
                         License |-> CopyOptional(p.License),
                         Tags |-> TagsList(p),
                         Variables |-> variables.val,
                         Options |-> options.val,
                         Artifacts |-> artifacts.val,
                         Requires |-> Requires(ds),
                         Hooks |-> ConvertHooks(hs),
                         Questions |-> ConvertQuestions(qs)]),
                    NilErr)

\* the statements after the nil check
BuildManifestBody(p, fs, ds, hs, qs) ==
    LET variables == ParseMapField(p.Variables)
        options == ParseMapField(p.Options)
        artifacts == Artifacts(fs)
    IN  IF ~variables.ok
        THEN Return(NilPtr, Errorf(<<"building manifest: parsing variables: ", JSONErr>>))
        ELSE IF ~options.ok
        THEN Return(NilPtr, Errorf(<<"building manifest: parsing options: ", JSONErr>>))
        ELSE IF ~artifacts.ok
        THEN Return(NilPtr, artifacts.err)
        ELSE Return(Ptr([ID |-> p.ID, Name |-> p.Name, Version |-> p.Version,
                         AgentVariant |-> p.AgentVariant, SHA256 |-> p.SHA256,
                         InstallScope |-> InstallScopeOf(p),
                         Description |-> CopyOptional(p.Description),
                         Author |-> CopyOptional(p.Author),
                         License |-> CopyOptional(p.License),
                         Tags |-> TagsList(p),
                         Variables |-> variables.val,
                         Options |-> options.val,
                         Artifacts |-> artifacts.val,
                         Requires |-> Requires(ds),
                         Hooks |-> ConvertHooks(hs),
                         Questions |-> ConvertQuestions(qs)]),
                    NilErr)

\* a version that reads the files before it tests the package
BuildManifest_FilesFirst(pp, fs, ds, hs, qs) ==
    IF ~Artifacts(fs).ok THEN Return(NilPtr, Artifacts(fs).err)
    ELSE IF PkgIsNil(pp)
    THEN Return(NilPtr, Errorf(<<"building manifest: package is nil">>))
    ELSE BuildManifestBody(pp.val, fs, ds, hs, qs)

\* a version that walks the files in an order that changes from one call to
\* the next
BuildManifest_Unstable(pp, fs, ds, hs, qs) ==
    IF PkgIsNil(pp)
    THEN Return(NilPtr, Errorf(<<"building manifest: package is nil">>))
    ELSE IF pc = "call" THEN BuildManifestBody(pp.val, fs, ds, hs, qs)
    ELSE BuildManifestBody(pp.val, [i \in 1..Len(fs) |-> fs[Len(fs) + 1 - i]],
                           ds, hs, qs)

BuildManifest(pp, fs, ds, hs, qs) ==
    IF PkgIsNil(pp)
    THEN Return(NilPtr, Errorf(<<"building manifest: package is nil">>))
    ELSE BuildManifestBody(pp.val, fs, ds, hs, qs)

-----------------------------------------------------------------------------
(* BuildManifest of the comma-convention draft, src/unnamed/part_004:627-820 *)

\* the table of this draft has no entry for config
fileTypePluralKeyCommaDraft ==
    [skill |-> "skills", agent |-> "agents", command |-> "commands",
     script |-> "scripts", hook |-> "hooks"]

\* a version that groups the types outside the table under type name + "s"
RECURSIVE GroupPaths_Fallback(_, _)
GroupPaths_Fallback(fs, acc) ==
    IF fs = <<>> THEN acc
    ELSE LET f == Head(fs) IN
         IF f.FileType \notin DOMAIN fileTypePluralKeyCommaDraft
         THEN GroupPaths_Fallback(Tail(fs),
                                  MapAppend(acc, f.FileType \o "s", f.DestPath))
         ELSE GroupPaths_Fallback(Tail(fs),
                         MapAppend(acc, fileTypePluralKeyCommaDraft[f.FileType], f.DestPath))

\* the loop over files: types outside the table are skipped, the entry is the
\* destination path, the frontmatter is not read
RECURSIVE GroupPaths(_, _)
GroupPaths(fs, acc) ==
    IF fs = <<>> THEN acc
    ELSE LET f == Head(fs) IN
         IF f.FileType \notin DOMAIN fileTypePluralKeyCommaDraft
         THEN GroupPaths(Tail(fs), acc)
         ELSE GroupPaths(Tail(fs),
                         MapAppend(acc, fileTypePluralKeyCommaDraft[f.FileType], f.DestPath))

ArtifactsCommaDraft(fs) ==
    IF Len(fs) > 0 THEN MakeMap(GroupPaths(fs, <<>>)) ELSE NilMap

\* "choices := q.ChoicesList(); if len(choices) > 0 { mq.Choices = choices }"
QuestionChoicesCommaDraft(q) ==
    LET choices == ChoicesList(q)
    IN  IF Len(choices.v) > 0 THEN choices ELSE NilSlice

ConvertQuestionsCommaDraft(qs) ==
    Slice([i \in 1..Len(qs) |->
            [QuestionID |-> qs[i].QuestionID, Prompt |-> qs[i].Prompt,
             Type |-> qs[i].Type, DefaultVal |-> qs[i].DefaultVal,
             Choices |-> QuestionChoicesCommaDraft(qs[i]),
             SortOrder |-> qs[i].SortOrder]])

BuildManifestCommaDraft(pp, fs, ds, hs, qs) ==
    IF PkgIsNil(pp) THEN Return(NilPtr, Errorf(<<"building manifest: package is nil">>))
    ELSE
    LET p == pp.val
        variables == ParseMapField(p.Variables)
        options == ParseMapField(p.Options)
    IN  IF ~variables.ok
        THEN Return(NilPtr, Errorf(<<"building manifest: parsing variables: ", JSONErr>>))
        ELSE IF ~options.ok
        THEN Return(NilPtr, Errorf(<<"building manifest: parsing options: ", JSONErr>>))
        ELSE Return(Ptr([ID |-> p.ID, Name |-> p.Name, Version |-> p.Version,
                         SHA256 |-> p.SHA256,
                         InstallScope |-> InstallScopeOf(p),
                         Description |-> CopyOptional(p.Description),
                         Author |-> CopyOptional(p.Author),
                         License |-> CopyOptional(p.License),
                         MinClaudeVersion |-> CopyOptional(p.MinClaudeVer),
                         Tags |-> TagsList(p),
                         Variables |-> variables.val,
                         Options |-> options.val,
                         Artifacts |-> ArtifactsCommaDraft(fs),
                         Requires |-> Requires(ds),
                         Hooks |-> ConvertHooks(hs),
                         Questions |-> ConvertQuestionsCommaDraft(qs)]),
                    NilErr)

-----------------------------------------------------------------------------
(* BuildManifest of the JSON-convention draft, src/unnamed/part_004:430-625 *)

\* the loop over files: [ok, val, err]; stops at the first bad frontmatter
RECURSIVE ConvertFilesJSONDraft(_, _)
ConvertFilesJSONDraft(fs, acc) ==
    IF fs = <<>> THEN [ok |-> TRUE, val |-> Slice(acc), err |-> NilErr]
    ELSE LET f == Head(fs)
             fm == ParseMapField(f.Frontmatter)
             mf == [DestPath |-> f.DestPath, SHA256 |-> f.SHA256,
                    FileType |-> f.FileType, ContentType |-> f.ContentType,
                    IsTemplate |-> f.IsTemplate, Frontmatter |-> fm.val]
         IN  IF ~fm.ok
             THEN [ok |-> FALSE, val |-> NilSlice,
                   err |-> Errorf(<<"building manifest: parsing frontmatter for ",
                                    f.DestPath, ": ", JSONErr>>)]
             ELSE ConvertFilesJSONDraft(Tail(fs), Append(acc, mf))

ConvertDepsJSONDraft(ds) ==
    Slice([i \in 1..Len(ds) |->
            [DepType |-> ds[i].DepType, DepName |-> ds[i].DepName,
             DepSpec |-> CopyOptional(ds[i].DepSpec),
             InstallCmd |-> CopyOptional(ds[i].InstallCmd),
             CmdSHA256 |-> CopyOptional(ds[i].CmdSHA256)]])

\* the loop over questions: [ok, val, err]; stops at the first bad choice list
RECURSIVE ConvertQuestionsJSONDraft(_, _)
ConvertQuestionsJSONDraft(qs, acc) ==
    IF qs = <<>> THEN [ok |-> TRUE, val |-> Slice(acc), err |-> NilErr]
    ELSE LET q == Head(qs)
             c == ChoicesListJSON(q)
             mq == [QuestionID |-> q.QuestionID, Prompt |-> q.Prompt,
                    Type |-> q.Type, DefaultVal |-> CopyOptional(q.DefaultVal),
                    Choices |-> c.val, SortOrder |-> q.SortOrder]
         IN  IF ~c.err.isNil
             THEN [ok |-> FALSE, val |-> NilSlice,
                   err |-> Errorf(<<"building manifest: ">> \o c.err.msg)]
             ELSE ConvertQuestionsJSONDraft(Tail(qs), Append(acc, mq))

BuildManifestJSONDraft(pp, fs, ds, hs, qs) ==
    IF PkgIsNil(pp) THEN Return(NilPtr, Errorf(<<"building manifest: package is nil">>))
    ELSE
    LET p == pp.val
        tags == TagsListJSON(p)
        variables == ParseMapField(p.Variables)
        options == ParseMapField(p.Options)
        mfiles == ConvertFilesJSONDraft(fs, <<>>)
        mquestions == ConvertQuestionsJSONDraft(qs, <<>>)
    IN  IF ~tags.err.isNil
        THEN Return(NilPtr, Errorf(<<"building manifest: ">> \o tags.err.msg))
        ELSE IF ~variables.ok
        THEN Return(NilPtr, Errorf(<<"building manifest: parsing variables: ", JSONErr>>))
        ELSE IF ~options.ok
        THEN Return(NilPtr, Errorf(<<"building manifest: parsing options: ", JSONErr>>))
        ELSE IF ~mfiles.ok
        THEN Return(NilPtr, mfiles.err)
        ELSE IF ~mquestions.ok
        THEN Return(NilPtr, mquestions.err)
        ELSE Return(Ptr([ID |-> p.ID, Name |-> p.Name, Version |-> p.Version,
                         InstallScope |-> p.InstallScope,
                         Description |-> CopyOptional(p.Description),
                         AgentVariant |-> CopyOptional(p.AgentVariant),
                         Author |-> CopyOptional(p.Author),
                         License |-> CopyOptional(p.License),
                         SHA256 |-> CopyOptional(p.SHA256),
                         Tags |-> tags.val,
                         Variables |-> variables.val,
                         Options |-> options.val,
                         Files |-> mfiles.val,
                         Deps |-> ConvertDepsJSONDraft(ds),
                         Hooks |-> ConvertHooks(hs),
                         Questions |-> mquestions.val]),
                    NilErr)

-----------------------------------------------------------------------------
(* Inputs: the rows a caller can pass *)

MaxFiles == 2
MaxDeps == 2
MaxHooks == 2
MaxQuestions == 2

Drafts == {"manifest.go", "comma-draft", "json-draft"}

\* sequences over X of length at most n
SeqsUpTo(X, n) == UNION {[1..k -> X] : k \in 0..n}
\* ... without repetition
InjSeqsUpTo(X, n) ==
    {s \in SeqsUpTo(X, n) : \A i, j \in 1..Len(s) : i # j => s[i] # s[j]}

\* structured text (variables, options, frontmatter)
RawEmpty == <<>>
RawNull == <<L("null")>>
RawSpaceNull == <<W, L("null")>>
RawKeyVal == <<P("{"), S("key"), P(":"), S("val"), P("}")>>
RawOptTrue == <<P("{"), W, S("opt"), P(":"), L("true"), P(","), S("n"), P(":"),
                P("["), N("1"), P("]"), P("}")>>
RawEmptyObj == <<P("{"), P("}")>>
RawTitle == <<P("{"), S("title"), P(":"), S("Config"), P("}")>>
RawNotJSON == <<G("not"), W, G("json")>>
RawBadObj == <<P("{"), G("bad")>>
RawUnclosed == <<P("{"), S("key"), P(":"), S("val")>>
RawNumArray == <<P("["), N("1"), P(","), N("2"), P("]")>>

MapRaws == {RawEmpty, RawNull, RawSpaceNull, RawKeyVal, RawOptTrue, RawEmptyObj,
            RawNotJSON, RawBadObj, RawUnclosed, RawNumArray}

\* what the well-formed texts above decode to
KeyValMap == [key |-> JStr("val")]
OptTrueMap == [opt |-> JBool("true"), n |-> JArr(<<JNum("1")>>)]
TitleMap == [title |-> JStr("Config")]

\* tag and choice lists, comma-separated
TxtEmpty == <<>>
TxtGoCli == <<"g", "o", ",", "c", "l", "i">>
TxtSpaced == <<" ", "g", "o", " ", ",", " ", "c", "l", "i", " ", ",">>
TxtFastSlow == <<"f", "a", "s", "t", ",", "s", "l", "o", "w">>
TxtBlank == <<" ", ",", " ">>
TxtNull == <<"n", "u", "l", "l">>
TxtTabbed == <<"\t", "g", "o", "\n", ",", "c", " ", "l", "i", "\r">>
TxtBracket == <<"[", "g", "o">>

\* tag and choice lists, JSON arrays
RawGoCli == <<P("["), S("go"), P(","), S("cli"), P("]")>>
RawFastSlow == <<P("["), S("fast"), P(","), W, S("slow"), P("]")>>
RawEmptyArr == <<P("["), P("]")>>

Idents == {[ID |-> "pkg-1", Name |-> "test", Version |-> "1.0.0"],
           [ID |-> "", Name |-> "", Version |-> ""]}

Scopes == {"any", "local-only", "global"}

\* which optional columns are set; every column has a value of its own
OptProfiles ==
    {[Description |-> Absent, Author |-> Absent, License |-> Absent,
      MinClaudeVer |-> Absent, SHA256 |-> Absent, AgentVariant |-> Absent],
     [Description |-> Present("A test package"), Author |-> Present("test-author"),
      License |-> Present("MIT"), MinClaudeVer |-> Present("1.0.32"),
      SHA256 |-> Present("abc123"), AgentVariant |-> Present("claude-code")],
     [Description |-> Present(""), Author |-> Absent, License |-> Present("MIT"),
      MinClaudeVer |-> Absent, SHA256 |-> Present("abc123"), AgentVariant |-> Absent],
     [Description |-> Absent, Author |-> Present("test-author"), License |-> Absent,
      MinClaudeVer |-> Present("1.0.32"), SHA256 |-> Absent,
      AgentVariant |-> Present("claude-code")]}

\* a packages row of the comma-convention schema: tags are text, agent_variant
\* and sha256 are plain strings
PackageComma(id, scope, o, tags, variables, options) ==
    [ID |-> id.ID, Name |-> id.Name, Version |-> id.Version,
     Description |-> o.Description, AgentVariant |-> o.AgentVariant.v,
     Author |-> o.Author, License |-> o.License, Tags |-> tags,
     InstallScope |-> scope, Variables |-> variables, Options |-> options,
     MinClaudeVer |-> o.MinClaudeVer, SHA256 |-> o.SHA256.v]

\* a packages row of the JSON-convention schema
PackageJSON(id, scope, o, tags, variables, options) ==
    [ID |-> id.ID, Name |-> id.Name, Version |-> id.Version,
     Description |-> o.Description, AgentVariant |-> o.AgentVariant,
     Author |-> o.Author, License |-> o.License, Tags |-> tags,
     InstallScope |-> scope, Variables |-> variables, Options |-> options,
     SHA256 |-> o.SHA256]

TagsOf(d) == IF d = "json-draft" THEN {RawEmpty, RawGoCli, RawNotJSON}
             ELSE {TxtEmpty, TxtSpaced, TxtBlank, TxtNull, TxtBracket}

Package(d, id, scope, o, tags, variables, options) ==
    IF d = "json-draft" THEN PackageJSON(id, scope, o, tags, variables, options)
    ELSE PackageComma(id, scope, o, tags, variables, options)

AllPkgs(d) ==
    {Ptr(Package(d, id, scope, o, tags, variables, options)) :
        id \in Idents, scope \in Scopes, o \in OptProfiles, tags \in TagsOf(d),
        variables \in MapRaws, options \in {RawEmpty, RawOptTrue, RawBadObj}}
    \cup
    {Ptr(Package(d, id, "any", o, RawEmpty, RawKeyVal, options)) :
        id \in Idents, o \in OptProfiles, options \in MapRaws}

GoodIdent == [ID |-> "pkg-1", Name |-> "test", Version |-> "1.0.0"]
GoodProfile == CHOOSE o \in OptProfiles : o.Description = Present("A test package")

\* the absent package, a well-formed one, and ones with malformed fields
CorePkgs(d) ==
    {NilPtr,
     Ptr(Package(d, GoodIdent, "any", GoodProfile, RawEmpty, RawKeyVal, RawOptTrue)),
     Ptr(Package(d, GoodIdent, "global", GoodProfile, RawEmpty, RawNotJSON, RawOptTrue)),
     Ptr(Package(d, GoodIdent, "global", GoodProfile, RawEmpty, RawKeyVal, RawBadObj)),
     Ptr(Package(d, GoodIdent, "global", GoodProfile, RawEmpty, RawNotJSON, RawBadObj))}

File(path, ft, ct, tmpl, fm) ==
    [PackageID |-> "pkg-1", DestPath |-> path, Content |-> "# content",
     SHA256 |-> "sha-of-" \o path, FileType |-> ft, ContentType |-> ct,
     IsTemplate |-> tmpl, Frontmatter |-> fm]

\* destination paths are unique within a package
FileRows ==
    {File("agent.md", "agent", "markdown", FALSE, RawEmpty),
     File("config.json", "config", "json", TRUE, RawTitle),
     File("skill.md", "skill", "markdown", FALSE, RawNull),
     File("notes.txt", "doc", "text", FALSE, RawKeyVal),
     File("zeta.md", "agent", "markdown", FALSE, RawSpaceNull),
     File("bad.md", "skill", "markdown", FALSE, RawBadObj),
     File("broken.md", "agent", "markdown", TRUE, RawNotJSON)}

AllFiles == InjSeqsUpTo(FileRows, MaxFiles)

Dep(type, name, spec) ==
    [PackageID |-> "pkg-1", DepType |-> type, DepName |-> name, DepSpec |-> spec,
     InstallCmd |-> "", CmdSHA256 |-> ""]

ToolX == <<"t", "o", "o", "l", "-", "x">>
ToolY == <<"t", "o", "o", "l", "-", "y">>
CliZ == <<"c", "l", "i", "-", "z">>
SpecGe1 == <<">", "=", "1", ".", "0">>
SpecPadded == <<" ", "^", "2", " ", ".", "0", "\t">>
SpecBlank == <<" ", " ">>

DepRowsComma ==
    {Dep("tool", ToolX, SpecGe1), Dep("tool", ToolY, <<>>), Dep("cli", CliZ, SpecGe1),
     Dep("tool", ToolY, SpecPadded), Dep("tool", ToolX, SpecBlank)}

DepJSON(type, name, spec, cmd) ==
    [PackageID |-> "pkg-1", DepType |-> type, DepName |-> name, DepSpec |-> spec,
     InstallCmd |-> cmd, CmdSHA256 |-> Absent]

DepRowsJSON ==
    {DepJSON("package", "other-pkg", Present(">=1.0.0"), Absent),
     DepJSON("tool", "tool-x", Absent, Present("go install example.com/tool@latest"))}

DepRows(d) == IF d = "json-draft" THEN DepRowsJSON ELSE DepRowsComma

AllDeps(d) == SeqsUpTo(DepRows(d), MaxDeps)

Hook(event, matcher, script, prio, blocking) ==
    [PackageID |-> "pkg-1", Event |-> event, Matcher |-> matcher,
     ScriptPath |-> script, Priority |-> prio, Blocking |-> blocking]

HookRows ==
    {Hook("PostToolUse", "**/*.md", "hooks/post.sh", 10, TRUE),
     Hook("PreToolUse", "*", "pre.sh", 1, FALSE)}

AllHooks == SeqsUpTo(HookRows, MaxHooks)

Question(id, prompt, type, default, choices, sort) ==
    [PackageID |-> "pkg-1", QuestionID |-> id, Prompt |-> prompt, Type |-> type,
     DefaultVal |-> default, Choices |-> choices, SortOrder |-> sort]

QuestionRowsComma ==
    {Question("q1", "Enable feature?", "confirm", "yes", TxtEmpty, 1),
     Question("q2", "Choose mode", "choice", "", TxtFastSlow, 2),
     Question("q3", "Pick", "multi", "", TxtBlank, 3)}

QuestionRowsJSON ==
    {Question("q1", "Enable feature?", "boolean", Present("yes"), RawEmpty, 1),
     Question("q2", "Choose mode", "choice", Absent, RawFastSlow, 2),
     Question("q3", "Bad", "choice", Absent, RawNotJSON, 3),
     Question("q4", "Pick", "multi-choice", Absent, RawEmptyArr, 4),
     Question("q5", "Numbers", "choice", Absent, RawNumArray, 5)}

QuestionRows(d) == IF d = "json-draft" THEN QuestionRowsJSON ELSE QuestionRowsComma

AllQuestions(d) == SeqsUpTo(QuestionRows(d), MaxQuestions)

CoreFiles == {<<>>, <<File("broken.md", "agent", "markdown", TRUE, RawNotJSON)>>}

CoreQuestions(d) ==
    {<<>>, <<Question("q3", "Bad", "choice", IF d = "json-draft" THEN Absent ELSE "",
                      IF d = "json-draft" THEN RawNotJSON ELSE TxtBlank, 3)>>}

\* the argument lists of one call: one argument ranges over all its values
\* while the others range over a few
Inputs(d, p, fs, ds, hs, qs) ==
    \/ /\ p \in AllPkgs(d)
       /\ fs = <<>> /\ ds = <<>> /\ hs = <<>> /\ qs = <<>>
    \/ /\ p \in CorePkgs(d)
       /\ fs \in AllFiles
       /\ ds = <<>> /\ hs = <<>>
       /\ qs \in CoreQuestions(d)
    \/ /\ p \in CorePkgs(d)
       /\ fs \in CoreFiles
       /\ ds = <<>> /\ hs = <<>>
       /\ qs \in AllQuestions(d)
    \/ /\ p \in {x \in CorePkgs(d) : x.isNil \/ x.val.InstallScope = "any"}
       /\ fs = <<>>
       /\ ds \in AllDeps(d)
       /\ hs \in AllHooks
       /\ qs = <<>>

-----------------------------------------------------------------------------
(* The calls *)

NoResult == Return(NilPtr, NilErr)
NoParse == [val |-> NilSlice, err |-> NilErr]

Init ==
    /\ draft \in Drafts
    /\ Inputs(draft, pkg, files, deps, hooks, questions)
    /\ pc = "call"
    /\ res = NoResult
    /\ files2 = files
    /\ res2 = NoResult
    /\ out = NoParse
    /\ OthersIdle

CallBuildManifest ==
    /\ pc = "call"
    /\ draft = "manifest.go"
    /\ res' = BuildManifest(pkg, files, deps, hooks, questions)
    /\ pc' = "done"
    /\ UNCHANGED <<draft, pkg, files, deps, hooks, questions, files2, res2, out, others>>

CallBuildManifestCommaDraft ==
    /\ pc = "call"
    /\ draft = "comma-draft"
    /\ res' = BuildManifestCommaDraft(pkg, files, deps, hooks, questions)
    /\ pc' = "done"
    /\ UNCHANGED <<draft, pkg, files, deps, hooks, questions, files2, res2, out, others>>

CallBuildManifestJSONDraft ==
    /\ pc = "call"
    /\ draft = "json-draft"
    /\ res' = BuildManifestJSONDraft(pkg, files, deps, hooks, questions)
    /\ pc' = "done"
    /\ UNCHANGED <<draft, pkg, files, deps, hooks, questions, files2, res2, out, others>>

\* the version in use
Build(d, pp, fs, ds, hs, qs) ==
    CASE d = "manifest.go" -> BuildManifest(pp, fs, ds, hs, qs)
      [] d = "comma-draft" -> BuildManifestCommaDraft(pp, fs, ds, hs, qs)
      [] d = "json-draft" -> BuildManifestJSONDraft(pp, fs, ds, hs, qs)

\* what the content column of a file may hold
Contents == {"# content", "other content"}

\* the same rows with any content
ContentVariants(fs) ==
    {[i \in 1..Len(fs) |-> [fs[i] EXCEPT !.Content = c[i]]] :
        c \in [1..Len(fs) -> Contents]}

\* a second call of the same version: every argument as in the first call,
\* except that the content of the files may have changed
CallAgain ==
    /\ pc = "done"
    /\ files2' \in ContentVariants(files)
    /\ res2' = Build(draft, pkg, files2', deps, hooks, questions)
    /\ pc' = "again"
    /\ UNCHANGED <<draft, pkg, files, deps, hooks, questions, res, out, others>>

Next ==
    \/ CallBuildManifest
    \/ CallBuildManifestCommaDraft
    \/ CallBuildManifestJSONDraft
    \/ CallAgain

Spec == Init /\ [][Next]_vars

Done == pc = "done"

Succeeded == Done /\ ~res.m.isNil /\ res.err.isNil

-----------------------------------------------------------------------------
(* TagsList and ChoicesList called on their own *)

MaxRawLen == 4
MaxRawToks == 4

\* comma-separated texts: every short text over a small alphabet, and some
\* longer ones
CommaAlphabet == {"a", "b", ",", " "}
CommaTexts ==
    SeqsUpTo(CommaAlphabet, MaxRawLen)
        \cup {TxtGoCli, TxtSpaced, TxtFastSlow, TxtBlank, TxtNull, TxtTabbed, TxtBracket}

\* JSON texts: every short token sequence over a small alphabet, and some
\* longer ones
JSONAlphabet == {P("["), P("]"), P(","), S("go"), S("cli"), N("1"), L("null")}
JSONTexts ==
    SeqsUpTo(JSONAlphabet, MaxRawToks)
        \cup {RawSpaceNull, RawGoCli, RawFastSlow, RawNotJSON, RawKeyVal,
              RawEmptyObj, RawUnclosed, <<W>>, <<L("true")>>}

ParseTexts(d) == IF d = "json-draft" THEN JSONTexts ELSE CommaTexts

\* one package row and one question row carrying the text
ParseInit ==
    /\ draft \in {"comma-draft", "json-draft"}
    /\ \E raw \in ParseTexts(draft) :
          /\ pkg = Ptr(Package(draft, GoodIdent, "any", GoodProfile, raw,
                               RawEmpty, RawEmpty))
          /\ questions = <<Question("q1", "Pick", "choice",
                                    IF draft = "json-draft" THEN Absent ELSE "",
                                    raw, 1)>>
    /\ files = <<>> /\ deps = <<>> /\ hooks = <<>>
    /\ pc = "parse"
    /\ res = NoResult
    /\ files2 = <<>>
    /\ res2 = NoResult
    /\ out = NoParse
    /\ OthersIdle

CallTagsList ==
    /\ pc = "parse"
    /\ draft = "comma-draft"
    /\ out' = [val |-> TagsList(pkg.val), err |-> NilErr]
    /\ pc' = "TagsList"
    /\ UNCHANGED <<draft, pkg, files, deps, hooks, questions, res, files2, res2, others>>

CallChoicesList ==
    /\ pc = "parse"
    /\ draft = "comma-draft"
    /\ out' = [val |-> ChoicesList(questions[1]), err |-> NilErr]
    /\ pc' = "ChoicesList"
    /\ UNCHANGED <<draft, pkg, files, deps, hooks, questions, res, files2, res2, others>>

CallTagsListJSON ==
    /\ pc = "parse"
    /\ draft = "json-draft"
    /\ out' = TagsListJSON(pkg.val)
    /\ pc' = "TagsList"
    /\ UNCHANGED <<draft, pkg, files, deps, hooks, questions, res, files2, res2, others>>

CallChoicesListJSON ==
    /\ pc = "parse"
    /\ draft = "json-draft"
    /\ out' = ChoicesListJSON(questions[1])
    /\ pc' = "ChoicesList"
    /\ UNCHANGED <<draft, pkg, files, deps, hooks, questions, res, files2, res2, others>>

ParseNext ==
    \/ CallTagsList
    \/ CallChoicesList
    \/ CallTagsListJSON
    \/ CallChoicesListJSON

SpecParse == ParseInit /\ [][ParseNext]_vars

Parsed == pc \in {"TagsList", "ChoicesList"}
\* the text the parser was given
ParseInput == IF pc = "TagsList" THEN pkg.val.Tags ELSE questions[1].Choices

-----------------------------------------------------------------------------
(* Properties *)

ErrNilPackage == Errorf(<<"building manifest: package is nil">>)
ErrVariables == Errorf(<<"building manifest: parsing variables: ", JSONErr>>)
ErrOptions == Errorf(<<"building manifest: parsing options: ", JSONErr>>)
ErrFrontmatter(path) ==
    Errorf(<<"building manifest: parsing frontmatter for ", path, ": ", JSONErr>>)

\* texts that are not JSON at all
MalformedRaws == {RawNotJSON, RawBadObj, RawUnclosed}
\* texts json.Unmarshal refuses for a map: not JSON, or JSON that is no object
RejectedAsMap == MalformedRaws \cup {RawNumArray}

HasRequires == draft \in {"manifest.go", "comma-draft"}
HasArtifacts == draft \in {"manifest.go", "comma-draft"}

\* C1: BuildManifest with an absent package fails with "package is nil" and
\* returns no manifest, whatever the files, dependencies, hooks and questions
\* hold, malformed ones included.
C1_NilPackageFails ==
    (Done /\ pkg.isNil) => (res.m.isNil /\ res.err = ErrNilPackage)

C1_Witness ==
    /\ Done /\ pkg.isNil /\ draft = "manifest.go"
    /\ \E i \in 1..Len(files) : files[i].Frontmatter \in MalformedRaws
    /\ res.err = ErrNilPackage

\* C2: on every successful build the manifest's install scope is empty when
\* the package's is "any", and is the package's value verbatim otherwise.
C2_InstallScopeOmittedIfAny ==
    Succeeded =>
        res.m.val.InstallScope =
            IF pkg.val.InstallScope = "any" THEN "" ELSE pkg.val.InstallScope

\* the indexes of the tool dependencies, and the k-th of them in input order
ToolIdx == {i \in 1..Len(deps) : deps[i].DepType = "tool"}
KthTool(k) ==
    CHOOSE i \in ToolIdx : Cardinality({j \in ToolIdx : j <= i}) = k

AllSpace(s) == \A i \in 1..Len(s) : IsSpace(s[i])
\* s from its first to its last character that is no white space
Inner(s) ==
    LET ink == {i \in 1..Len(s) : ~IsSpace(s[i])}
        lo == CHOOSE i \in ink : \A j \in ink : i <= j
        hi == CHOOSE i \in ink : \A j \in ink : j <= i
    IN  SubSeq(s, lo, hi)

ExpectedRequire(d) ==
    IF AllSpace(d.DepSpec) THEN d.DepName
    ELSE d.DepName \o <<" ">> \o Inner(d.DepSpec)

\* C3: the requires list is the input-order sequence of the tool dependencies
\* (as many entries as tool dependencies, none of another type, nothing sorted
\* or dropped as a duplicate); an entry is the name alone when the version
\* spec is empty or all white space, else name, one space, the trimmed spec.
C3_RequiresAreToolDepsInOrder ==
    (Succeeded /\ HasRequires) =>
        LET r == res.m.val.Requires.v IN
        /\ Len(r) = Cardinality(ToolIdx)
        /\ \A k \in 1..Len(r) : r[k] = ExpectedRequire(deps[KthTool(k)])

C3_Witness ==
    /\ Succeeded /\ HasRequires
    /\ Len(deps) = 2
    /\ deps[1].DepType = "cli"
    /\ deps[2].DepSpec = SpecPadded
    /\ res.m.val.Requires.v = <<ToolY \o <<" ", "^", "2", " ", ".", "0">>>>

\* the plural keys common to every version; manifest.go adds config
KnownPlural ==
    [skill |-> "skills", agent |-> "agents", command |-> "commands",
     script |-> "scripts", hook |-> "hooks"]
TableOf(d) ==
    IF d = "manifest.go" THEN KnownPlural @@ [config |-> "configs"] ELSE KnownPlural

\* the destination paths listed under a key of the built artifacts
EntryPath(e) == IF draft = "comma-draft" THEN e ELSE e.DestPath
PathsUnder(key) ==
    LET a == res.m.val.Artifacts.v
    IN  IF key \in DOMAIN a THEN [i \in 1..Len(a[key]) |-> EntryPath(a[key][i])]
        ELSE <<>>
Occurrences(s, x) == Cardinality({i \in 1..Len(s) : s[i] = x})
PositionIn(s, x) == CHOOSE i \in 1..Len(s) : s[i] = x

\* C4: on success every file whose type is in the plural-key table is listed
\* exactly once, under its type's plural key and under no other key; files of
\* one key keep their input order; with no files the artifacts map is nil.
C4_ArtifactsGroupedInOrder ==
    (Succeeded /\ HasArtifacts) =>
        LET T == TableOf(draft)
            a == res.m.val.Artifacts
            known == {i \in 1..Len(files) : files[i].FileType \in DOMAIN T}
        IN  /\ Len(files) = 0 => a.isNil
            /\ \A i \in known :
                 \A key \in DOMAIN a.v \cup {T[files[i].FileType]} :
                    Occurrences(PathsUnder(key), files[i].DestPath)
                       = IF key = T[files[i].FileType] THEN 1 ELSE 0
            /\ \A i, j \in known :
                 (i < j /\ T[files[i].FileType] = T[files[j].FileType]) =>
                    LET g == PathsUnder(T[files[i].FileType])
                    IN  PositionIn(g, files[i].DestPath) < PositionIn(g, files[j].DestPath)

C4_Witness ==
    /\ Succeeded /\ HasArtifacts
    /\ Len(files) = 2
    /\ files[1].DestPath = "zeta.md" /\ files[2].DestPath = "agent.md"
    /\ PathsUnder("agents") = <<"zeta.md", "agent.md">>

\* what the version's own parser makes of a question's choice list
ParsedChoices(q) ==
    IF draft = "json-draft" THEN ChoicesListJSON(q).val.v ELSE ChoicesList(q).v

\* C5: a question whose choice list parses to the empty sequence has a nil
\* choices field in the manifest; one with a non-empty parsed list carries
\* exactly that list.
C5_EmptyChoicesUnset ==
    Succeeded =>
        \A i \in 1..Len(questions) :
            LET c == res.m.val.Questions.v[i].Choices
                parsed == ParsedChoices(questions[i])
            IN  IF parsed = <<>> THEN c.isNil ELSE ~c.isNil /\ c.v = parsed

\* the tag list parses (it cannot fail under the comma convention)
TagsParse == draft = "json-draft" => pkg.val.Tags \notin MalformedRaws

\* C6: a variables or options text that is set and is not well-formed fails
\* the build: no manifest, and an error naming a field that failed, variables
\* before options.
C6_MalformedMapFieldFails ==
    (Done /\ ~pkg.isNil
          /\ (pkg.val.Variables \in MalformedRaws \/ pkg.val.Options \in MalformedRaws))
    =>  /\ res.m.isNil
        /\ ~res.err.isNil
        /\ TagsParse =>
              res.err = IF pkg.val.Variables \in RejectedAsMap THEN ErrVariables
                        ELSE ErrOptions

C6_Witness ==
    /\ Done /\ ~pkg.isNil
    /\ pkg.val.Variables = RawKeyVal /\ pkg.val.Options = RawBadObj
    /\ res.m.isNil /\ res.err = ErrOptions

PackageParses ==
    /\ ~pkg.isNil
    /\ pkg.val.Variables \notin RejectedAsMap
    /\ pkg.val.Options \notin RejectedAsMap
    /\ TagsParse

BadFiles == {i \in 1..Len(files) : files[i].Frontmatter \in MalformedRaws}
FirstOf(I) == CHOOSE i \in I : \A j \in I : i <= j

\* C7: a file with malformed frontmatter fails the build: no manifest, and an
\* error carrying the destination path of that file.
C7_MalformedFrontmatterFails ==
    (Done /\ PackageParses /\ BadFiles # {}) =>
        /\ res.m.isNil
        /\ res.err = ErrFrontmatter(files[FirstOf(BadFiles)].DestPath)

\* choice lists the JSON-array convention refuses; the comma-separated
\* convention refuses none
BadQuestions ==
    IF draft = "json-draft"
    THEN {i \in 1..Len(questions) : questions[i].Choices \in {RawNotJSON, RawNumArray}}
    ELSE {}

\* C8: a question with a malformed choice list fails the build: no manifest,
\* and an error carrying the identifier of that question.
C8_MalformedChoicesNamesQuestion ==
    (Done /\ PackageParses /\ BadFiles = {} /\ BadQuestions # {}) =>
        /\ res.m.isNil
        /\ ~res.err.isNil
        /\ \E k \in 1..Len(res.err.msg) :
              res.err.msg[k] = questions[FirstOf(BadQuestions)].QuestionID

CopiedOrEmpty(o, x) == (o.present => x = o.v) /\ (~o.present => x = "")

ExpectedMap(raw) ==
    CASE raw \in {RawEmpty, RawNull, RawSpaceNull} -> NilMap
      [] raw = RawKeyVal -> MakeMap(KeyValMap)
      [] raw = RawOptTrue -> MakeMap(OptTrueMap)
      [] raw = RawEmptyObj -> MakeMap(<<>>)

\* no other argument is malformed
RestParses ==
    /\ TagsParse
    /\ draft = "comma-draft" \/ BadFiles = {}
    /\ BadQuestions = {}

\* C10: with variables and options empty or null the build succeeds and
\* leaves both manifest fields nil; on every success each of the two fields
\* is nil for an empty or null text and else holds the keys and values of
\* the text.
C10_MapFieldsUnsetOrParsed ==
    /\ (Done /\ ~pkg.isNil /\ RestParses
             /\ pkg.val.Variables \in {RawEmpty, RawNull}
             /\ pkg.val.Options \in {RawEmpty, RawNull})
       => (Succeeded /\ res.m.val.Variables.isNil /\ res.m.val.Options.isNil)
    /\ Succeeded =>
          /\ res.m.val.Variables = ExpectedMap(pkg.val.Variables)
          /\ res.m.val.Options = ExpectedMap(pkg.val.Options)

C10_Witness ==
    /\ Succeeded
    /\ pkg.val.Variables = RawNull /\ pkg.val.Options = RawOptTrue
    /\ res.m.val.Variables.isNil
    /\ res.m.val.Options = MakeMap(OptTrueMap)

\* C11: on success the manifest's hook list is as long as the input hook
\* list and its i-th entry has the event, matcher, script path, priority and
\* blocking flag of the i-th input hook.
C11_HooksCopiedInOrder ==
    Succeeded =>
        LET h == res.m.val.Hooks
        IN  /\ ~h.isNil
            /\ Len(h.v) = Len(hooks)
            /\ \A i \in 1..Len(hooks) :
                  /\ h.v[i].Event = hooks[i].Event
                  /\ h.v[i].Matcher = hooks[i].Matcher
                  /\ h.v[i].ScriptPath = hooks[i].ScriptPath
                  /\ h.v[i].Priority = hooks[i].Priority
                  /\ h.v[i].Blocking = hooks[i].Blocking

C11_Witness ==
    /\ Succeeded
    /\ Len(hooks) = 2
    /\ hooks[1].Priority > hooks[2].Priority
    /\ hooks[1].Blocking /\ ~hooks[2].Blocking
    /\ res.m.val.Hooks.v[1].Event = "PostToolUse"
    /\ res.m.val.Hooks.v[2].Event = "PreToolUse"

\* C12: on success the manifest's question list is as long as the input
\* question list and its i-th entry has the identifier, prompt, type, default
\* value and sort order of the i-th input question, whatever the order of the
\* sort_order values in the input.
C12_QuestionsCopiedInOrder ==
    Succeeded =>
        LET q == res.m.val.Questions
        IN  /\ Len(q.v) = Len(questions)
            /\ \A i \in 1..Len(questions) :
                  /\ q.v[i].QuestionID = questions[i].QuestionID
                  /\ q.v[i].Prompt = questions[i].Prompt
                  /\ q.v[i].Type = questions[i].Type
                  /\ q.v[i].SortOrder = questions[i].SortOrder
                  /\ IF draft = "json-draft"
                     THEN CopiedOrEmpty(questions[i].DefaultVal, q.v[i].DefaultVal)
                     ELSE q.v[i].DefaultVal = questions[i].DefaultVal

C12_Witness ==
    /\ Succeeded
    /\ Len(questions) = 2
    /\ questions[1].SortOrder > questions[2].SortOrder
    /\ res.m.val.Questions.v[1].QuestionID = "q2"
    /\ res.m.val.Questions.v[2].QuestionID = "q1"
    /\ res.m.val.Questions.v[2].DefaultVal = "yes"

CommaParsed == Parsed /\ draft = "comma-draft"
JSONParsed == Parsed /\ draft = "json-draft"

\* the pieces of a comma-separated text, by position: a piece lies between
\* two neighbouring cuts (a comma, or an end of the text), and what counts of
\* it runs from its first to its last character that is not whitespace
Blank == {" ", "\t", "\n", "\r"}
Cuts(s) == {0, Len(s) + 1} \cup {i \in 1..Len(s) : s[i] = ","}
NextCut(s, c) == CHOOSE d \in Cuts(s) : d > c /\ \A e \in Cuts(s) : e > c => d <= e
Inked(s, c) == {i \in (c + 1)..(NextCut(s, c) - 1) : s[i] \notin Blank}
Kept(s) == {c \in Cuts(s) : c <= Len(s) /\ Inked(s, c) # {}}
Least(I) == CHOOSE i \in I : \A j \in I : i <= j
Greatest(I) == CHOOSE i \in I : \A j \in I : j <= i
KthOf(I, k) == CHOOSE x \in I : Cardinality({y \in I : y < x}) = k - 1
ExpectedPieces(s) ==
    [k \in 1..Cardinality(Kept(s)) |->
        LET ink == Inked(s, KthOf(Kept(s), k))
        IN  SubSeq(s, Least(ink), Greatest(ink))]

\* C13: under the comma-separated convention TagsList and ChoicesList return
\* the pieces between the commas, each trimmed of surrounding whitespace, the
\* empty ones dropped, in the order of the text; so every element is
\* non-empty, starts and ends with a character that is not whitespace, and
\* holds no comma.
C13_CommaSplitTrimDrop ==
    CommaParsed =>
        LET r == out.val.v
        IN  /\ out.err.isNil
            /\ r = ExpectedPieces(ParseInput)
            /\ \A k \in 1..Len(r) :
                  /\ Len(r[k]) > 0
                  /\ r[k][1] \notin Blank
                  /\ r[k][Len(r[k])] \notin Blank
                  /\ \A i \in 1..Len(r[k]) : r[k][i] # ","

C13_Witness ==
    /\ CommaParsed
    /\ ParseInput = <<" ", "g", "o", " ", ",", " ", "c", "l", "i", " ", ",">>
    /\ out.val.v = << <<"g", "o">>, <<"c", "l", "i">> >>

\* C14: under the comma-separated convention a tag or choice field that is
\* empty (an absent column reads as the empty text) or is the text null
\* parses to an empty sequence that is not nil, without an error.
C14_CommaEmptyOrNullGivesEmpty ==
    (CommaParsed /\ ParseInput \in {<<>>, <<"n", "u", "l", "l">>}) =>
        /\ out.err.isNil
        /\ ~out.val.isNil
        /\ out.val.v = <<>>

\* a JSON text without its insignificant whitespace
NoWS(raw) == SelectSeq(raw, LAMBDA tok : tok.t # "ws")
\* [ "s" , "s" , ... ] with at least one element
IsStringArray(t) ==
    /\ Len(t) >= 3 /\ Len(t) % 2 = 1
    /\ t[1] = [t |-> "punct", v |-> "["]
    /\ t[Len(t)] = [t |-> "punct", v |-> "]"]
    /\ \A i \in 2..(Len(t) - 1) :
          IF i % 2 = 0 THEN t[i].t = "string" ELSE t[i] = [t |-> "punct", v |-> ","]
StringsOf(t) == [k \in 1..((Len(t) - 1) \div 2) |-> t[2 * k].v]
ReadsAsEmpty(raw) ==
    \/ raw = <<>>
    \/ NoWS(raw) = <<[t |-> "lit", v |-> "null"]>>
    \/ NoWS(raw) = <<[t |-> "punct", v |-> "["], [t |-> "punct", v |-> "]"]>>

\* C15: under the JSON-array convention TagsList and ChoicesList return an
\* empty sequence and no error for an empty text, null and [], the elements
\* in order and no error for an array of strings, and an error for every
\* other text.
C15_JSONArrayOfStringsOrError ==
    JSONParsed =>
        IF ReadsAsEmpty(ParseInput)
        THEN out.err.isNil /\ out.val.v = <<>>
        ELSE IF IsStringArray(NoWS(ParseInput))
        THEN out.err.isNil /\ out.val.v = StringsOf(NoWS(ParseInput))
        ELSE ~out.err.isNil

ErrTags == Errorf(<<"building manifest: ", "parsing tags: ", JSONErr>>)

\* C16: under the JSON-array convention a malformed tag list fails the
\* build, with an error and no manifest; under the comma-separated convention
\* the build succeeds whatever the tag field holds, as long as nothing else
\* is malformed.
C16_TagsFailOnlyUnderJSON ==
    /\ (Done /\ draft = "json-draft" /\ ~pkg.isNil /\ pkg.val.Tags \in MalformedRaws)
       => (res.m.isNil /\ res.err = ErrTags)
    /\ (Done /\ draft # "json-draft" /\ PackageParses /\ RestParses)
       => Succeeded

C16_Witness ==
    /\ Done /\ draft = "json-draft"
    /\ pkg.val.Tags = <<G("not"), W, G("json")>>
    /\ pkg.val.Variables = RawKeyVal
    /\ res.m.isNil /\ res.err = ErrTags

CalledAgain == pc = "again"

SameButContent(fs, gs) ==
    /\ Len(fs) = Len(gs)
    /\ \A i \in 1..Len(fs) : [gs[i] EXCEPT !.Content = fs[i].Content] = fs[i]

\* C20: a second call whose arguments differ from the first call's in the
\* content of files only returns what the first call returned.
C20_ContentNotInManifest ==
    (CalledAgain /\ SameButContent(files, files2)) => res2 = res

C20_Witness ==
    /\ CalledAgain
    /\ Len(files) = 2
    /\ files2[1].Content # files[1].Content
    /\ files2[2].Content # files[2].Content
    /\ SameButContent(files, files2)
    /\ draft = "manifest.go"
    /\ ~res.m.isNil
    /\ res2 = res

\* every <<key, position>> of the built artifacts
ArtifactSlots ==
    LET a == res.m.val.Artifacts.v
    IN  UNION {{<<key, k>> : k \in 1..Len(a[key])} : key \in DOMAIN a}

\* C18: with the exclude policy a file whose type is outside the plural-key
\* table is in no artifacts group and there is no "configs" key; the files
\* agent.md (agent), config.json (config) give exactly {agents: [agent.md]}.
C18_UnknownTypesExcluded ==
    (Succeeded /\ draft = "comma-draft") =>
        LET a == res.m.val.Artifacts
        IN  /\ "configs" \notin DOMAIN a.v
            /\ \A i \in 1..Len(files) :
                  files[i].FileType \notin DOMAIN KnownPlural =>
                     \A slot \in ArtifactSlots :
                        a.v[slot[1]][slot[2]] # files[i].DestPath
            /\ (/\ Len(files) = 2
                /\ files[1].DestPath = "agent.md" /\ files[1].FileType = "agent"
                /\ files[2].DestPath = "config.json" /\ files[2].FileType = "config")
               => a = MakeMap([agents |-> <<"agent.md">>])

C18_Witness ==
    /\ Succeeded /\ draft = "comma-draft"
    /\ Len(files) = 2
    /\ files[1].DestPath = "agent.md" /\ files[2].DestPath = "config.json"
    /\ DOMAIN res.m.val.Artifacts.v = {"agents"}
    /\ res.m.val.Artifacts.v["agents"] = <<"agent.md">>

\* C19: with the include-all policy every file is in the artifacts map, under
\* its type's table key (config under "configs") or, for a type outside the
\* table, under the type name followed by "s"; the map has as many entries
\* as there are files.
C19_EveryTypeIncluded ==
    (Succeeded /\ draft = "manifest.go") =>
        LET a == res.m.val.Artifacts.v
            T == KnownPlural @@ [config |-> "configs"]
        IN  /\ Cardinality(ArtifactSlots) = Len(files)
            /\ \A i \in 1..Len(files) :
                  LET ft == files[i].FileType
                      key == IF ft \in DOMAIN T THEN T[ft] ELSE ft \o "s"
                  IN  /\ key \in DOMAIN a
                      /\ \E k \in 1..Len(a[key]) : a[key][k].DestPath = files[i].DestPath

C19_Witness ==
    /\ Succeeded /\ draft = "manifest.go"
    /\ Len(files) = 2
    /\ files[1].FileType = "doc" /\ files[2].FileType = "config"
    /\ DOMAIN res.m.val.Artifacts.v = {"docs", "configs"}
    /\ res.m.val.Artifacts.v["docs"][1].DestPath = "notes.txt"
    /\ res.m.val.Artifacts.v["configs"][1].DestPath = "config.json"

-----------------------------------------------------------------------------
(* Concurrent calls of BuildManifest, src/src/pkg/models/manifest.go:80-195. *)
(* Each goroutine runs the function on arguments of its own.  A step is the *)
(* code between two reads of the package variable fileTypePluralKey, the    *)
(* only memory the calls share.                                             *)

manifestVars == <<draft, pkg, files, deps, hooks, questions, pc, res, files2, res2, out>>

\* no call of the sequential specifications is running
ManifestIdle ==
    /\ draft = "manifest.go"
    /\ pkg = NilPtr
    /\ files = <<>> /\ deps = <<>> /\ hooks = <<>> /\ questions = <<>>
    /\ pc = "idle"
    /\ res = NoResult
    /\ files2 = <<>>
    /\ res2 = NoResult
    /\ out = NoParse

besidesGo == <<manifestVars, fsVars, ioVars, logVars, cmdVars, fmtVars, sqlVars>>

MaxTasks == 2

Tasks == 1..MaxTasks

GoodPkg == Ptr(Package("manifest.go", GoodIdent, "global", GoodProfile, TxtSpaced,
                       RawKeyVal, RawOptTrue))

Args(p, fs, ds, hs, qs) ==
    [pkg |-> p, files |-> fs, deps |-> ds, hooks |-> hs, questions |-> qs]

\* argument lists that end at each return statement of the function
TaskInputs ==
    {Args(NilPtr, <<>>, <<>>, <<>>, <<>>),
     Args(GoodPkg,
          <<File("agent.md", "agent", "markdown", FALSE, RawEmpty),
            File("notes.txt", "doc", "text", FALSE, RawKeyVal)>>,
          <<Dep("tool", ToolX, SpecGe1)>>,
          <<Hook("PreToolUse", "*", "pre.sh", 1, FALSE)>>,
          <<Question("q2", "Choose mode", "choice", "", TxtFastSlow, 2)>>),
     Args(GoodPkg,
          <<File("skill.md", "skill", "markdown", FALSE, RawNull),
            File("broken.md", "agent", "markdown", TRUE, RawNotJSON)>>,
          <<>>, <<>>, <<>>),
     Args(Ptr(Package("manifest.go", GoodIdent, "global", GoodProfile, RawEmpty,
                      RawNotJSON, RawOptTrue)),
          <<File("agent.md", "agent", "markdown", FALSE, RawEmpty)>>,
          <<>>, <<>>, <<>>),
     Args(Ptr(Package("manifest.go", GoodIdent, "any", GoodProfile, TxtEmpty,
                      RawKeyVal, RawBadObj)),
          <<>>, <<Dep("tool", ToolY, <<>>)>>, <<>>, <<>>),
     Args(GoodPkg, <<>>, <<Dep("cli", CliZ, SpecGe1)>>,
          <<Hook("PostToolUse", "**/*.md", "hooks/post.sh", 10, TRUE)>>, <<>>)}

\* "m := &Manifest{...}" and the statements up to the tags: the other fields
\* hold their zero value
NewManifest(p) ==
    [ID |-> p.ID, Name |-> p.Name, Version |-> p.Version,
     AgentVariant |-> p.AgentVariant, SHA256 |-> p.SHA256,
     InstallScope |-> InstallScopeOf(p),
     Description |-> CopyOptional(p.Description),
     Author |-> CopyOptional(p.Author),
     License |-> CopyOptional(p.License),
     Tags |-> TagsList(p),
     Variables |-> NilMap, Options |-> NilMap, Artifacts |-> NilMap,
     Requires |-> NilSlice, Hooks |-> NilSlice, Questions |-> NilSlice]

Running(p, i, m) == [pc |-> p, i |-> i, m |-> m, ret |-> NoResult]
Returned(r) == [pc |-> "done", i |-> 0, m |-> <<>>, ret |-> r]

GoInit ==
    /\ ManifestIdle /\ FsIdle /\ IoIdle /\ LogIdle /\ CmdIdle /\ FmtIdle /\ SqlIdle
    /\ pluralKeys = fileTypePluralKey
    /\ args \in [Tasks -> TaskInputs]
    /\ task = [g \in Tasks |-> Running("call", 0, <<>>)]

\* a version that remembers in the table the key it made up for a type the
\* table does not have
ReadPluralKey_Caching(table, ft) ==
    IF ft \in DOMAIN table THEN [key |-> table[ft], table |-> table]
    ELSE [key |-> ft \o "s", table |-> table @@ (ft :> ft \o "s")]

\* "key, ok := fileTypePluralKey[f.FileType]; if !ok { key = ... + "s" }":
\* the key, and the table as the statement leaves it
ReadPluralKey(table, ft) ==
    [key |-> IF ft \in DOMAIN table THEN table[ft] ELSE ft \o "s", table |-> table]

\* from the nil check to the test "len(files) > 0" and the make of the map
Enter(g) ==
    /\ task[g].pc = "call"
    /\ LET a == args[g]
           variables == ParseMapField(a.pkg.val.Variables)
           options == ParseMapField(a.pkg.val.Options)
       IN  task' = [task EXCEPT ![g] =
             IF PkgIsNil(a.pkg)
             THEN Returned(Return(NilPtr, Errorf(<<"building manifest: package is nil">>)))
             ELSE IF ~variables.ok
             THEN Returned(Return(NilPtr,
                     Errorf(<<"building manifest: parsing variables: ", JSONErr>>)))
             ELSE IF ~options.ok
             THEN Returned(Return(NilPtr,
                     Errorf(<<"building manifest: parsing options: ", JSONErr>>)))
             ELSE IF Len(a.files) > 0
             THEN Running("files", 1,
                          [NewManifest(a.pkg.val) EXCEPT !.Variables = variables.val,
                                                         !.Options = options.val,
                                                         !.Artifacts = MakeMap(<<>>)])
             ELSE Running("deps", 0,
                          [NewManifest(a.pkg.val) EXCEPT !.Variables = variables.val,
                                                         !.Options = options.val])]
    /\ UNCHANGED <<pluralKeys, args, besidesGo>>

\* one pass of "for _, f := range files"
RangeFiles(g) ==
    /\ task[g].pc = "files"
    /\ LET t == task[g]
           f == args[g].files[t.i]
           fm == ParseMapField(f.Frontmatter)
           mf == [DestPath |-> f.DestPath, SHA256 |-> f.SHA256,
                  FileType |-> f.FileType, ContentType |-> f.ContentType,
                  IsTemplate |-> f.IsTemplate, Frontmatter |-> fm.val]
           read == ReadPluralKey(pluralKeys, f.FileType)
       IN  IF ~fm.ok
           THEN /\ task' = [task EXCEPT ![g] = Returned(Return(NilPtr,
                       Errorf(<<"building manifest: parsing frontmatter for ",
                                f.DestPath, ": ", JSONErr>>)))]
                /\ UNCHANGED pluralKeys
           ELSE /\ task' = [task EXCEPT ![g] =
                       Running(IF t.i < Len(args[g].files) THEN "files" ELSE "deps",
                               t.i + 1,
                               [t.m EXCEPT !.Artifacts =
                                   MakeMap(MapAppend(t.m.Artifacts.v, read.key, mf))])]
                /\ pluralKeys' = read.table
    /\ UNCHANGED <<args, besidesGo>>

\* the loops over deps, hooks and questions, and "return m, nil"
Leave(g) ==
    /\ task[g].pc = "deps"
    /\ task' = [task EXCEPT ![g] =
          Returned(Return(Ptr([task[g].m EXCEPT
                                 !.Requires = Requires(args[g].deps),
                                 !.Hooks = ConvertHooks(args[g].hooks),
                                 !.Questions = ConvertQuestions(args[g].questions)]),
                          NilErr))]
    /\ UNCHANGED <<pluralKeys, args, besidesGo>>

GoNext == \E g \in Tasks : Enter(g) \/ RangeFiles(g) \/ Leave(g)

SpecGo == GoInit /\ [][GoNext]_vars

\* what the call of goroutine g returns when nothing else runs
Alone(g) ==
    BuildManifest(args[g].pkg, args[g].files, args[g].deps, args[g].hooks,
                  args[g].questions)

\* C21: concurrent calls on arguments of their own do not interfere: each
\* returns what it returns when it runs alone, no call changes its arguments,
\* and the table of plural keys is never written.
C21_ConcurrentCallsIndependent ==
    /\ [](\A g \in Tasks : task[g].pc = "done" => task[g].ret = Alone(g))
    /\ [][args' = args /\ pluralKeys' = pluralKeys]_vars

\* every call has returned a manifest, one of them after it met a file type
\* that the table does not have
C21_Witness ==
    /\ \A g \in Tasks : task[g].pc = "done" /\ ~task[g].ret.m.isNil
    /\ \E g \in Tasks : "docs" \in DOMAIN task[g].ret.m.val.Artifacts.v

-----------------------------------------------------------------------------
(* Log rotation, src/src/internal/logging/logger.go:110-178.                *)
(* A file name is a sequence of characters.  A time is [Y, M, D, h]: the    *)
(* calendar date and the hour of the day.  The entries of the directory are *)
(* regular files that the process may rename and remove; the content of a   *)
(* file is the sequence of its lines.                                       *)

besidesFs == <<manifestVars, goVars, ioVars, logVars, cmdVars, fmtVars, sqlVars>>

logFile == <<"s", "c", ".", "l", "o", "g">>

logRetentionDays == 7

Digits == <<"0", "1", "2", "3", "4", "5", "6", "7", "8", "9">>

IsDigit(c) == \E i \in 1..10 : Digits[i] = c
DigitValue(c) == (CHOOSE i \in 1..10 : Digits[i] = c) - 1

\* n written with w digits, zero-padded
RECURSIVE Itoa(_, _)
Itoa(n, w) == IF w = 0 THEN <<>> ELSE Itoa(n \div 10, w - 1) \o <<Digits[(n % 10) + 1]>>

\* the number that a run of digits spells
RECURSIVE Atoi(_)
Atoi(cs) == IF cs = <<>> THEN 0
            ELSE Atoi(SubSeq(cs, 1, Len(cs) - 1)) * 10 + DigitValue(cs[Len(cs)])

IsLeap(y) == y % 4 = 0 /\ (y % 100 # 0 \/ y % 400 = 0)

DaysIn(m, y) ==
    IF m = 2 THEN (IF IsLeap(y) THEN 29 ELSE 28)
    ELSE IF m \in {4, 6, 9, 11} THEN 30 ELSE 31

\* t.Format("2006-01-02")
FormatDate(t) == Itoa(t.Y, 4) \o <<"-">> \o Itoa(t.M, 2) \o <<"-">> \o Itoa(t.D, 2)

\* time.Parse("2006-01-02", cs): [ok, t]; the time is midnight UTC of the date
ParseDate(cs) ==
    IF /\ Len(cs) = 10
       /\ \A i \in {1, 2, 3, 4, 6, 7, 9, 10} : IsDigit(cs[i])
       /\ cs[5] = "-" /\ cs[8] = "-"
    THEN LET y == Atoi(SubSeq(cs, 1, 4))
             m == Atoi(SubSeq(cs, 6, 7))
             d == Atoi(SubSeq(cs, 9, 10))
         IN  IF m \in 1..12 /\ d >= 1 /\ d <= DaysIn(m, y)
             THEN [ok |-> TRUE, t |-> [Y |-> y, M |-> m, D |-> d, h |-> 0]]
             ELSE [ok |-> FALSE, t |-> <<>>]
    ELSE [ok |-> FALSE, t |-> <<>>]

\* the number of the day of a date, counted from 1970-01-01
DayNumber(t) ==
    LET y == IF t.M <= 2 THEN t.Y - 1 ELSE t.Y
        era == y \div 400
        yoe == y - era * 400
        mp == IF t.M > 2 THEN t.M - 3 ELSE t.M + 9
        doy == (153 * mp + 2) \div 5 + t.D - 1
        doe == yoe * 365 + yoe \div 4 - yoe \div 100 + doy
    IN  era * 146097 + doe - 719468

HasPrefix(cs, pre) == Len(cs) >= Len(pre) /\ SubSeq(cs, 1, Len(pre)) = pre
HasSuffix(cs, suf) ==
    Len(cs) >= Len(suf) /\ SubSeq(cs, Len(cs) - Len(suf) + 1, Len(cs)) = suf
TrimPrefix(cs, pre) == IF HasPrefix(cs, pre) THEN SubSeq(cs, Len(pre) + 1, Len(cs)) ELSE cs
TrimSuffix(cs, suf) == IF HasSuffix(cs, suf) THEN SubSeq(cs, 1, Len(cs) - Len(suf)) ELSE cs

ScDash == <<"s", "c", "-">>
DotLog == <<".", "l", "o", "g">>

\* fmt.Sprintf("sc-%s.log", modDate)
RotatedName(modDate) == ScDash \o modDate \o DotLog

\* os.Rename: the file takes the new name, in place of any file of that name
Rename(d, old, new) ==
    [n \in (DOMAIN d \ {old}) \cup {new} |-> IF n = new THEN d[old] ELSE d[n]]

\* a version that also removes the file dated on the cutoff day
IsOld_Inclusive(name, t) ==
    /\ HasPrefix(name, ScDash) /\ HasSuffix(name, DotLog)
    /\ LET fileDate == ParseDate(TrimSuffix(TrimPrefix(name, ScDash), DotLog))
       IN  fileDate.ok /\ DayNumber(fileDate.t) <= DayNumber(t) - logRetentionDays

\* the body of the loop of cleanOldLogs: whether the entry is removed
IsOld(name, t) ==
    /\ HasPrefix(name, ScDash) /\ HasSuffix(name, DotLog)
    /\ LET fileDate == ParseDate(TrimSuffix(TrimPrefix(name, ScDash), DotLog))
       IN  fileDate.ok /\ DayNumber(fileDate.t) < DayNumber(t) - logRetentionDays

\* cleanOldLogs(dir, now): [dir, err]; os.Remove takes away the entries for
\* which the loop body decides so
cleanOldLogs(d, t) ==
    [dir |-> [n \in {x \in DOMAIN d : ~IsOld(x, t)} |-> d[n]], err |-> NilErr]

\* rotateLogWithTime(dir, now): [dir, err]
rotateLogWithTime(d, t) ==
    IF logFile \notin DOMAIN d THEN [dir |-> d, err |-> NilErr]
    ELSE LET modDate == FormatDate(d[logFile].mod)
             today == FormatDate(t)
         IN  IF modDate = today THEN [dir |-> d, err |-> NilErr]
             ELSE cleanOldLogs(Rename(d, logFile, RotatedName(modDate)), t)

MaxEntries == 3

Time(y, m, d, h) == [Y |-> y, M |-> m, D |-> d, h |-> h]

LogEntry(content, mod) == [content |-> content, mod |-> mod]

\* the names that the directory may hold besides sc.log: rotated logs of
\* several dates, names whose date part is no date, and other files
EntryNames ==
    {RotatedName(FormatDate(Time(2024, 2, 22, 0))),
     RotatedName(FormatDate(Time(2024, 2, 23, 0))),
     RotatedName(FormatDate(Time(2024, 2, 29, 0))),
     RotatedName(FormatDate(Time(2023, 12, 28, 0))),
     <<"s", "c", "-", "2", "0", "2", "4", "-", "0", "2", "-", "3", "0", ".", "l", "o", "g">>,
     <<"s", "c", "-", "2", "0", "2", "4", "-", "2", "-", "2", "2", ".", "l", "o", "g">>,
     <<"s", "c", "-", ".", "l", "o", "g">>,
     <<"o", "t", "h", "e", "r", ".", "l", "o", "g">>}

\* when sc.log was last written
ModTimes ==
    {Time(2024, 3, 1, 8), Time(2024, 2, 29, 23), Time(2024, 2, 23, 12),
     Time(2024, 2, 22, 10), Time(2023, 12, 28, 7)}

Nows == {Time(2024, 3, 1, 9), Time(2024, 3, 8, 0), Time(2024, 1, 4, 23)}

Dirs ==
    {[n \in names \cup cur |->
        IF n = logFile THEN LogEntry(<<"current log">>, mod)
        ELSE LogEntry(<<"rotated log">>, Time(2024, 1, 1, 0))] :
     names \in {x \in SUBSET EntryNames : Cardinality(x) <= MaxEntries},
     cur \in {{}, {logFile}}, mod \in ModTimes}

RotateInit ==
    /\ ManifestIdle /\ GoIdle /\ IoIdle /\ LogIdle /\ CmdIdle /\ FmtIdle /\ SqlIdle
    /\ dir \in Dirs
    /\ now \in Nows
    /\ fspc = "call"
    /\ fsret = NilErr

CallRotateLogWithTime ==
    /\ fspc = "call"
    /\ dir' = rotateLogWithTime(dir, now).dir
    /\ fsret' = rotateLogWithTime(dir, now).err
    /\ fspc' = "rotateLogWithTime"
    /\ UNCHANGED <<now, besidesFs>>

CallCleanOldLogs ==
    /\ fspc = "call"
    /\ dir' = cleanOldLogs(dir, now).dir
    /\ fsret' = cleanOldLogs(dir, now).err
    /\ fspc' = "cleanOldLogs"
    /\ UNCHANGED <<now, besidesFs>>

RotateNext == CallRotateLogWithTime \/ CallCleanOldLogs

SpecRotate == RotateInit /\ [][RotateNext]_vars

SameDate(t, u) == t.Y = u.Y /\ t.M = u.M /\ t.D = u.D

\* C25: rotateLogWithTime returns no error and changes nothing when sc.log does
\* not exist; it leaves sc.log as it is when sc.log was last modified on the
\* date of now; otherwise sc.log is gone afterwards and the file
\* sc-<modification date>.log holds what sc.log held.
C25_RotateRenamesOutdatedLog ==
    [][fspc' = "rotateLogWithTime" =>
        /\ logFile \notin DOMAIN dir => fsret'.isNil /\ dir' = dir
        /\ logFile \in DOMAIN dir /\ SameDate(dir[logFile].mod, now) =>
              logFile \in DOMAIN dir' /\ dir'[logFile] = dir[logFile]
        /\ logFile \in DOMAIN dir /\ ~SameDate(dir[logFile].mod, now) =>
              /\ logFile \notin DOMAIN dir'
              /\ RotatedName(FormatDate(dir[logFile].mod)) \in DOMAIN dir'
              /\ dir'[RotatedName(FormatDate(dir[logFile].mod))].content
                    = dir[logFile].content]_vars

\* the dates of the calendar that the names may spell
Dates ==
    {t \in [Y : 2023..2024, M : 1..12, D : 1..31, h : {0}] : t.D <= DaysIn(t.M, t.Y)}

\* the entry is a rotated log of a date more than the retention before now
Expired(name, t) ==
    \E date \in Dates :
        /\ name = RotatedName(FormatDate(date))
        /\ DayNumber(date) + logRetentionDays < DayNumber(t)

-----------------------------------------------------------------------------
(* Logging, src/src/internal/logging/logger.go:23-108 and 180-231.          *)
(* A handler is [sink, level, attrs]; its sink is the log file sc.log of    *)
(* the log directory or os.Stderr.  A write to a sink may fail.             *)

besidesLog == <<manifestVars, goVars, fspc, fsret, stdout, cmdVars, fmtVars, sqlVars>>

LevelDebug == 0 - 4
LevelInfo == 0
LevelWarn == 4
LevelError == 8

Levels == {LevelDebug, LevelInfo, LevelWarn, LevelError}

Sinks == {"file", "console"}

Handler(sink, level) == [sink |-> sink, level |-> level, attrs |-> <<>>]

\* slog.New(h) / slog.New(newMultiHandler(hs...))
Logger(multi, hs) == [multi |-> multi, handlers |-> hs]

resolveConsoleLevel(verbose, quiet) ==
    IF verbose THEN LevelDebug ELSE IF quiet THEN LevelWarn ELSE LevelInfo

\* slog.NewTextHandler(os.Stderr, &slog.HandlerOptions{Level: level})
consoleHandler(level) == Handler("console", level)

\* os.OpenFile(path, O_CREATE|O_WRONLY|O_APPEND, 0o600)
OpenFile(d, t) ==
    IF logFile \in DOMAIN d THEN d ELSE d @@ (logFile :> LogEntry(<<>>, t))

\* fileHandler(): [ok, h, dir]; e tells whether the home directory is known
\* and whether the file can be opened
fileHandler(e, d, t) ==
    IF e = "no home" THEN [ok |-> FALSE, h |-> <<>>, dir |-> d]
    ELSE IF e = "no open"
    THEN [ok |-> FALSE, h |-> <<>>, dir |-> rotateLogWithTime(d, t).dir]
    ELSE [ok |-> TRUE, h |-> Handler("file", LevelInfo),
          dir |-> OpenFile(rotateLogWithTime(d, t).dir, t)]

\* "if !quiet { handlers = append(handlers, consoleHandler(consoleLevel)) }"
ConsoleHandlers(verbose, quiet) ==
    IF ~quiet THEN <<consoleHandler(resolveConsoleLevel(verbose, quiet))>> ELSE <<>>

\* "switch len(handlers)"
LoggerOf(handlers, consoleLevel) ==
    IF Len(handlers) = 0 THEN Logger(FALSE, <<consoleHandler(consoleLevel)>>)
    ELSE IF Len(handlers) = 1 THEN Logger(FALSE, handlers)
    ELSE Logger(TRUE, handlers)

\* Setup(verbose, quiet): [logger, dir]
Setup(verbose, quiet, e, d, t) ==
    LET fh == fileHandler(e, d, t)
        handlers == (IF fh.ok THEN <<fh.h>> ELSE <<>>) \o ConsoleHandlers(verbose, quiet)
    IN  [logger |-> LoggerOf(handlers, resolveConsoleLevel(verbose, quiet)),
         dir |-> fh.dir]

\* WithContext(logger, component, operation): every handler gets the attributes
WithContext(l, component, operation) ==
    Logger(l.multi,
           [i \in 1..Len(l.handlers) |->
               [l.handlers[i] EXCEPT !.attrs = @ \o <<component, operation>>]])

\* Handler.Enabled of the text and JSON handlers
HandlerEnabled(h, level) == level >= h.level

\* multiHandler.Enabled
multiEnabled(hs, level) == \E i \in 1..Len(hs) : HandlerEnabled(hs[i], level)

Record(level, msg, attrs) == [level |-> level, msg |-> msg, attrs |-> attrs]

\* the line that a handler writes for a record
Line(h, r) ==
    [format |-> IF h.sink = "file" THEN "json" ELSE "text",
     level |-> r.level, msg |-> r.msg, attrs |-> h.attrs \o r.attrs]

\* what a call of Handle leaves behind: the handlers that were called, the
\* sinks that were written, and the error
Outcome(called, written, err) == [called |-> called, written |-> written, err |-> err]

\* multiHandler.Handle: the loop from handler i on; a handler whose sink is in
\* failing returns an error
RECURSIVE multiHandle(_, _, _, _, _)
multiHandle(hs, i, level, failing, acc) ==
    IF i > Len(hs) THEN acc
    ELSE IF ~HandlerEnabled(hs[i], level)
    THEN multiHandle(hs, i + 1, level, failing, acc)
    ELSE IF hs[i].sink \in failing
    THEN Outcome(acc.called \cup {i}, acc.written, Errorf(<<"write ", hs[i].sink>>))
    ELSE multiHandle(hs, i + 1, level, failing,
                     Outcome(acc.called \cup {i}, acc.written \cup {i}, acc.err))

\* Logger.Log: nothing if the handler is not enabled for the level, else the
\* handler's Handle; the logger drops the error
Handle(l, level, failing) ==
    IF l.multi
    THEN IF multiEnabled(l.handlers, level)
         THEN multiHandle(l.handlers, 1, level, failing, Outcome({}, {}, NilErr))
         ELSE Outcome({}, {}, NilErr)
    ELSE IF ~HandlerEnabled(l.handlers[1], level) THEN Outcome({}, {}, NilErr)
    ELSE IF l.handlers[1].sink \in failing
    THEN Outcome({1}, {}, Errorf(<<"write ", l.handlers[1].sink>>))
    ELSE Outcome({1}, {1}, NilErr)

\* the lines that the written handlers add to a sink
RECURSIVE LinesFor(_, _, _, _, _)
LinesFor(sink, hs, i, written, r) ==
    IF i > Len(hs) THEN <<>>
    ELSE (IF i \in written /\ hs[i].sink = sink THEN <<Line(hs[i], r)>> ELSE <<>>)
         \o LinesFor(sink, hs, i + 1, written, r)

\* the log file after the lines have been appended
AppendToFile(d, lines, t) ==
    IF lines = <<>> THEN d
    ELSE [d EXCEPT ![logFile] = LogEntry(@.content \o lines, t)]

MaxRecords == 2

\* the log directory at start-up: empty, with a log of today, with a log of an
\* earlier day
LogDirs ==
    {<<>>,
     (logFile :> LogEntry(<<"current log">>, Time(2024, 3, 1, 8))),
     (logFile :> LogEntry(<<"current log">>, Time(2024, 2, 29, 23)))}

LogInit ==
    /\ ManifestIdle /\ GoIdle /\ CmdIdle /\ FmtIdle /\ SqlIdle
    /\ fspc = "idle" /\ fsret = NilErr
    /\ dir \in LogDirs
    /\ now = Time(2024, 3, 1, 9)
    /\ stdout = <<>> /\ stderr = <<>>
    /\ env \in {"ok", "no home", "no open"}
    /\ setup \in [verbose : BOOLEAN, quiet : BOOLEAN]
    /\ logger = <<>>
    /\ logged = [n |-> 0]
    /\ logpc = "start"

CallSetup ==
    /\ logpc = "start"
    /\ logger' = Setup(setup.verbose, setup.quiet, env, dir, now).logger
    /\ dir' = Setup(setup.verbose, setup.quiet, env, dir, now).dir
    /\ logpc' = "ready"
    /\ UNCHANGED <<now, stderr, env, setup, logged, besidesLog>>

\* logger.Log(ctx, level, msg), while the sinks in failing reject the write
Log(level, failing) ==
    /\ logpc \in {"ready", "logged"}
    /\ logged.n < MaxRecords
    /\ LET o == Handle(logger, level, failing)
           r == Record(level, "message", <<>>)
       IN  /\ stderr' = stderr \o LinesFor("console", logger.handlers, 1, o.written, r)
           /\ dir' = AppendToFile(dir, LinesFor("file", logger.handlers, 1, o.written, r),
                                  now)
           /\ logged' = [n |-> logged.n + 1, level |-> level, failing |-> failing,
                         called |-> o.called, written |-> o.written, err |-> o.err]
    /\ logpc' = "logged"
    /\ UNCHANGED <<now, env, setup, logger, besidesLog>>

LogNext == CallSetup \/ \E level \in Levels, failing \in SUBSET Sinks : Log(level, failing)

SpecLog == LogInit /\ [][LogNext]_vars

\* the last record was written to the sink
Reached(sink) == \E i \in logged.written : logger.handlers[i].sink = sink

\* C24: the logger of Setup writes to the log file from Info up whatever the
\* flags are, and to the console from Debug up when verbose, from Warn up when
\* quiet and from Info up otherwise; so in quiet mode a Warn or Error record
\* reaches the console.  (Stated for records whose writes succeed, and for the
\* file when it could be opened.)
C24_FileInfoConsoleByFlags ==
    logpc = "logged" /\ logged.failing = {} =>
        /\ env = "ok" => (Reached("file") <=> logged.level >= LevelInfo)
        /\ Reached("console") <=>
              logged.level >= (IF setup.verbose THEN LevelDebug
                               ELSE IF setup.quiet THEN LevelWarn ELSE LevelInfo)

\* C30: multiHandler.Handle hands a record to every handler that is enabled for
\* its level and to no other, also to the handlers that come after one whose
\* Handle returned an error.
C30_EveryEnabledHandlerCalled ==
    logpc = "logged" /\ logger.multi /\ multiEnabled(logger.handlers, logged.level) =>
        logged.called = {i \in 1..Len(logger.handlers) :
                            HandlerEnabled(logger.handlers[i], logged.level)}

-----------------------------------------------------------------------------
(* The root command, src/src/cmd/root.go:18-70, and its configuration,      *)
(* src/src/internal/config/config.go.  Executing the command runs           *)
(* PersistentPreRunE and, if that returns no error, RunE.                   *)

besidesCmd == <<manifestVars, goVars, fspc, fsret, fmtVars, sqlVars>>

\* NewConfigFromFlags: the flags are registered, so no read of a flag fails
NewConfigFromFlags(fl) ==
    [DoltDir |-> fl.doltDir, Remote |-> fl.remote, JSON |-> fl.json,
     Quiet |-> fl.quiet, Verbose |-> fl.verbose]

\* a version that rejects --verbose whatever --quiet is
Validate_VerboseAlone(c) ==
    IF c.Verbose
    THEN Errorf(<<"--verbose and --quiet cannot be used together">>)
    ELSE NilErr

\* (*Config).Validate
Validate(c) ==
    IF c.Verbose /\ c.Quiet
    THEN Errorf(<<"--verbose and --quiet cannot be used together">>)
    ELSE NilErr

Home == <<"/", "h", "o", "m", "e">>

\* (*Config).DoltDirExpanded; e tells whether the home directory is known
DoltDirExpanded(c, e) ==
    IF c.DoltDir = <<>> THEN <<>>
    ELSE IF HasPrefix(c.DoltDir, <<"~", "/">>)
    THEN IF e = "no home" THEN c.DoltDir
         ELSE Home \o <<"/">> \o SubSeq(c.DoltDir, 3, Len(c.DoltDir))
    ELSE c.DoltDir

\* the attributes of the record "configuration loaded"
ConfigAttrs(c, e) ==
    <<"dolt_dir",
      IF DoltDirExpanded(c, e) = <<>> THEN "(auto-detect)" ELSE DoltDirExpanded(c, e),
      "remote", c.Remote, "json", c.JSON, "verbose", c.Verbose, "quiet", c.Quiet>>

DoltDirs == {<<>>, <<"~", "/", "d", "b">>, <<"/", "d", "b">>}

CmdInit ==
    /\ ManifestIdle /\ GoIdle /\ FmtIdle /\ SqlIdle
    /\ fspc = "idle" /\ fsret = NilErr
    /\ dir \in LogDirs
    /\ now = Time(2024, 3, 1, 9)
    /\ stdout = <<>> /\ stderr = <<>>
    /\ env \in {"ok", "no home", "no open"}
    /\ setup = <<>>
    /\ logger = <<>>
    /\ logged = [n |-> 0]
    /\ logpc = "start"
    /\ flags \in [doltDir : DoltDirs, remote : {"", "origin"}, json : BOOLEAN,
                  quiet : BOOLEAN, verbose : BOOLEAN]
    /\ cmdpc = "start"
    /\ cmdErr = NilErr

\* what PersistentPreRunE does once the configuration is valid: it sets up the
\* logging and logs "configuration loaded" at Debug level
LoadConfiguration(c, l, failing) ==
    LET o == Handle(l, LevelDebug, failing)
        r == Record(LevelDebug, "configuration loaded", ConfigAttrs(c, env))
    IN  /\ setup' = [verbose |-> c.Verbose, quiet |-> c.Quiet]
        /\ logger' = l
        /\ stderr' = stderr \o LinesFor("console", l.handlers, 1, o.written, r)
        /\ dir' = AppendToFile(Setup(c.Verbose, c.Quiet, env, dir, now).dir,
                               LinesFor("file", l.handlers, 1, o.written, r), now)
        /\ logged' = [n |-> 1, level |-> LevelDebug, failing |-> failing,
                      called |-> o.called, written |-> o.written, err |-> o.err]
        /\ logpc' = "logged"

PersistentPreRunE ==
    /\ cmdpc = "start"
    /\ LET cfg == NewConfigFromFlags(flags) IN
       IF ~Validate(cfg).isNil
       THEN /\ cmdErr' = Errorf(<<"invalid configuration: ">> \o Validate(cfg).msg)
            /\ cmdpc' = "failed"
            /\ UNCHANGED <<setup, logger, stderr, dir, logged, logpc>>
       ELSE /\ \E failing \in SUBSET Sinks :
                 LoadConfiguration(cfg,
                     WithContext(Setup(cfg.Verbose, cfg.Quiet, env, dir, now).logger,
                                 "cli", "init"),
                     failing)
            /\ cmdpc' = "prerun"
            /\ UNCHANGED cmdErr
    /\ UNCHANGED <<now, stdout, env, flags, besidesCmd>>

\* RunE: "return cmd.Help()"
RunE ==
    /\ cmdpc = "prerun"
    /\ stdout' = stdout \o <<"help">>
    /\ cmdpc' = "done"
    /\ UNCHANGED <<cmdErr, flags, dir, now, stderr, logVars, besidesCmd>>

CmdNext == PersistentPreRunE \/ RunE

SpecCmd == CmdInit /\ [][CmdNext]_vars

\* C22: Validate returns an error exactly when Verbose and Quiet are both
\* true; executing the root command with --verbose and --quiet fails in the
\* pre-run step with an error that says "cannot be used together", and then
\* neither has the run function been invoked nor the logging been set up.
C22_ConflictingFlagsFailInPreRun ==
    /\ Validate(NewConfigFromFlags(flags)).isNil <=> ~(flags.verbose /\ flags.quiet)
    /\ cmdpc # "start" /\ flags.verbose /\ flags.quiet =>
          /\ cmdpc = "failed"
          /\ cmdErr = Errorf(<<"invalid configuration: ",
                               "--verbose and --quiet cannot be used together">>)
          /\ stdout = <<>>
          /\ logger = <<>> /\ logpc = "start"
    /\ cmdpc \in {"prerun", "done"} => logpc = "logged" /\ cmdErr.isNil

\* the command was executed with both flags and has failed
C22_Witness == cmdpc = "failed" /\ flags.verbose /\ flags.quiet

-----------------------------------------------------------------------------
(* The output formatter, src/src/internal/output/formatter.go.  Writer is   *)
(* os.Stdout and ErrW is os.Stderr or nil, as NewFormatter and a literal    *)
(* Formatter make them.  What is written is a sequence of texts; the text   *)
(* of a table keeps its lines and cells, the text of a JSON document keeps  *)
(* its value.                                                               *)

besidesFmt == <<manifestVars, goVars, fsVars, logVars, cmdVars, sqlVars>>

MaxCalls == 3

Min(a, b) == IF a < b THEN a ELSE b

\* tableAsJSON: one object per row, keyed by the headers that the row has a
\* column for; a later column of the same header overwrites an earlier one
RowObject(headers, row) ==
    [h \in {headers[i] : i \in 1..Min(Len(headers), Len(row))} |->
        row[CHOOSE i \in 1..Min(Len(headers), Len(row)) :
                /\ headers[i] = h
                /\ \A j \in 1..Min(Len(headers), Len(row)) : headers[j] = h => j <= i]]

tableAsJSON(headers, rows) == [i \in 1..Len(rows) |-> RowObject(headers, rows[i])]

\* WriteJSON: json.MarshalIndent and a newline
WriteJSON(v) == <<[json |-> v]>>

\* Table(headers, rows): what it writes to Writer
Table(fm, headers, rows) ==
    IF fm.Quiet THEN <<>>
    ELSE IF fm.JSON THEN WriteJSON(tableAsJSON(headers, rows))
    ELSE <<[table |-> <<headers>> \o rows]>>

\* a version that prints the message in quiet mode too
Success_Always(fm, msg) == <<msg>>

\* Success(msg): what it writes to Writer
Success(fm, msg) == IF fm.Quiet THEN <<>> ELSE <<msg>>

\* Error(msg): what it writes to ErrW, or to os.Stderr if ErrW is nil
ErrorText(msg) == <<"Error: " \o msg>>

Messages == {"", "installed", "not found"}

Headers == <<"ID", "NAME">>

RowSets == {<<>>, <<<<"pkg-1", "test">>>>, <<<<"pkg-1", "test">>, <<"pkg-2">>>>}

FmtInit ==
    /\ ManifestIdle /\ GoIdle /\ FsIdle /\ LogIdle /\ CmdIdle /\ SqlIdle
    /\ stdout = <<>> /\ stderr = <<>>
    /\ formatter \in [JSON : BOOLEAN, Quiet : BOOLEAN, ErrW : {"os.Stderr", "nil"}]
    /\ fcall = [n |-> 0, op |-> "NewFormatter", msg |-> ""]

CallTable ==
    /\ fcall.n < MaxCalls
    /\ \E rows \in RowSets : stdout' = stdout \o Table(formatter, Headers, rows)
    /\ fcall' = [n |-> fcall.n + 1, op |-> "Table", msg |-> ""]
    /\ UNCHANGED <<stderr, formatter, besidesFmt>>

CallWriteJSON ==
    /\ fcall.n < MaxCalls
    /\ \E rows \in RowSets : stdout' = stdout \o WriteJSON(rows)
    /\ fcall' = [n |-> fcall.n + 1, op |-> "WriteJSON", msg |-> ""]
    /\ UNCHANGED <<stderr, formatter, besidesFmt>>

CallSuccess ==
    /\ fcall.n < MaxCalls
    /\ \E msg \in Messages :
          /\ stdout' = stdout \o Success(formatter, msg)
          /\ fcall' = [n |-> fcall.n + 1, op |-> "Success", msg |-> msg]
    /\ UNCHANGED <<stderr, formatter, besidesFmt>>

CallError ==
    /\ fcall.n < MaxCalls
    /\ \E msg \in Messages :
          /\ stderr' = stderr \o ErrorText(msg)
          /\ fcall' = [n |-> fcall.n + 1, op |-> "Error", msg |-> msg]
    /\ UNCHANGED <<stdout, formatter, besidesFmt>>

FmtNext == CallTable \/ CallWriteJSON \/ CallSuccess \/ CallError

SpecFmt == FmtInit /\ [][FmtNext]_vars

\* C23: in quiet mode Table and Success write nothing to the normal writer,
\* with or without JSON mode; in every mode Error writes "Error: <msg>" to the
\* error writer and nothing to the normal writer.
C23_QuietSuppressesAllButErrors ==
    [][/\ fcall'.op \in {"Table", "Success"} /\ formatter.Quiet => stdout' = stdout
       /\ fcall'.op = "Error" =>
             /\ stderr' = Append(stderr, "Error: " \o fcall'.msg)
             /\ stdout' = stdout]_vars

\* a quiet formatter in JSON mode has been asked for a table after an error
\* message, and the normal writer is still empty
C23_Witness ==
    /\ formatter.Quiet /\ formatter.JSON
    /\ fcall.op = "Table" /\ fcall.n = MaxCalls
    /\ stderr # <<>>
    /\ stdout = <<>>

-----------------------------------------------------------------------------
(* The database client, src/unnamed/part_001:54-298 and 346-354.  sql.DB is *)
(* a pool of connections; each statement runs on a connection that the pool *)
(* picks, and a USE statement changes the branch of the connection it runs  *)
(* on.  The rows that a query returns are left out: a call is recorded with *)
(* the branch that its query ran on.                                        *)

besidesSql == <<manifestVars, goVars, fsVars, ioVars, logVars, cmdVars, fmtVars>>

MaxConns == 2
MaxQueries == 3

Conns == 1..MaxConns

Database == "synaptic_canvas"

\* the branches of the database besides the default one
Branches == {"beta", "dev"}

\* the default branch, the one a new connection is on
DefaultBranch == ""

\* what a caller may put in ListOptions.Branch
BranchArgs == {"", "beta", "dev", "gone"}

\* UseBranchQuery(database, branch); the back quotes around the name are
\* left out
UseBranchQuery(database, branch) ==
    IF branch = "" THEN "" ELSE "USE " \o database \o "/" \o branch

\* the server runs a USE statement on connection c: [conns, err]
ExecContext(cs, c, stmt) ==
    IF \E b \in Branches : stmt = "USE " \o Database \o "/" \o b
    THEN [conns |-> [cs EXCEPT ![c] =
                        CHOOSE b \in Branches : stmt = "USE " \o Database \o "/" \o b],
          err |-> NilErr]
    ELSE [conns |-> cs, err |-> Errorf(<<"database not found">>)]

\* switchBranch(ctx, branch), its statement running on connection c
switchBranch(cs, c, branch) ==
    IF UseBranchQuery(Database, branch) = "" THEN [conns |-> cs, err |-> NilErr]
    ELSE LET e == ExecContext(cs, c, UseBranchQuery(Database, branch))
         IN  [conns |-> e.conns,
              err |-> IF e.err.isNil THEN NilErr
                      ELSE Errorf(<<"switching to branch ", branch, ": ">> \o e.err.msg)]

SqlCall(n, op, branch, read, err) ==
    [n |-> n, op |-> op, branch |-> branch, read |-> read, err |-> err]

SqlInit ==
    /\ ManifestIdle /\ GoIdle /\ FsIdle /\ IoIdle /\ LogIdle /\ CmdIdle /\ FmtIdle
    /\ conns = [c \in Conns |-> DefaultBranch]
    /\ sqlcall = SqlCall(0, "Open", "", "", NilErr)

\* ListPackages(ctx, opts): the USE statement runs on connection c, the query
\* on connection q
ListPackages ==
    /\ sqlcall.n < MaxQueries
    /\ \E branch \in BranchArgs, c \in Conns, q \in Conns :
          LET sw == switchBranch(conns, c, branch) IN
          /\ conns' = sw.conns
          /\ sqlcall' = IF ~sw.err.isNil
                        THEN SqlCall(sqlcall.n + 1, "ListPackages", branch, "none", sw.err)
                        ELSE SqlCall(sqlcall.n + 1, "ListPackages", branch, sw.conns[q],
                                     NilErr)
    /\ UNCHANGED besidesSql

\* the record of a call that only queries, on connection q
Queried(op, q) == SqlCall(sqlcall.n + 1, op, "", conns[q], NilErr)

GetPackage ==
    /\ sqlcall.n < MaxQueries
    /\ \E q \in Conns : sqlcall' = Queried("GetPackage", q)
    /\ UNCHANGED <<conns, besidesSql>>

GetPackageFiles ==
    /\ sqlcall.n < MaxQueries
    /\ \E q \in Conns : sqlcall' = Queried("GetPackageFiles", q)
    /\ UNCHANGED <<conns, besidesSql>>

GetPackageDeps ==
    /\ sqlcall.n < MaxQueries
    /\ \E q \in Conns : sqlcall' = Queried("GetPackageDeps", q)
    /\ UNCHANGED <<conns, besidesSql>>

GetPackageHooks ==
    /\ sqlcall.n < MaxQueries
    /\ \E q \in Conns : sqlcall' = Queried("GetPackageHooks", q)
    /\ UNCHANGED <<conns, besidesSql>>

GetPackageQuestions ==
    /\ sqlcall.n < MaxQueries
    /\ \E q \in Conns : sqlcall' = Queried("GetPackageQuestions", q)
    /\ UNCHANGED <<conns, besidesSql>>

SqlNext ==
    \/ ListPackages
    \/ GetPackage
    \/ GetPackageFiles
    \/ GetPackageDeps
    \/ GetPackageHooks
    \/ GetPackageQuestions

SpecSql == SqlInit /\ [][SqlNext]_vars

\* C29: the branch that a call reads depends on its own arguments only:
\* whatever was called before on the client, ListPackages with an empty Branch
\* and each of the Get calls read the default branch.
C29_BranchFromOwnArguments ==
    sqlcall.op # "Open" /\ sqlcall.branch = "" /\ sqlcall.err.isNil =>
        sqlcall.read = DefaultBranch

-----------------------------------------------------------------------------
(* The order of the failures of BuildManifest, and its artifacts field *)

\* C27: BuildManifest reports the first failure of its processing order and
\* returns no manifest: the variables before the options, the options before
\* the frontmatter of any file, and of the files the earliest malformed one in
\* the order given.  (A version that does not read the frontmatter has no
\* failure for it; a tag list that fails comes before all of these.)
C27_FirstFailureReported ==
    (Done /\ ~pkg.isNil /\ TagsParse) =>
        /\ pkg.val.Variables \in RejectedAsMap => res = Return(NilPtr, ErrVariables)
        /\ (pkg.val.Variables \notin RejectedAsMap /\ pkg.val.Options \in RejectedAsMap)
              => res = Return(NilPtr, ErrOptions)
        /\ (PackageParses /\ BadFiles # {} /\ draft # "comma-draft")
              => res = Return(NilPtr, ErrFrontmatter(files[FirstOf(BadFiles)].DestPath))
        /\ ~res.err.isNil => res.m.isNil

\* variables and options are both malformed, and so is a file: the error is
\* the one of the variables
C27_Witness ==
    /\ Done /\ ~pkg.isNil
    /\ pkg.val.Variables \in RejectedAsMap /\ pkg.val.Options \in RejectedAsMap
    /\ BadFiles # {}
    /\ res = Return(NilPtr, ErrVariables)

\* how many files the artifacts of the manifest list
RECURSIVE ListedIn(_, _)
ListedIn(a, keys) ==
    IF keys = {} THEN 0
    ELSE LET k == CHOOSE x \in keys : TRUE
         IN  Len(a[k]) + ListedIn(a, keys \ {k})

\* C28: when BuildManifest succeeds, the artifacts field is nil exactly when no
\* file is listed in any group: a map that is set has a key, and each of its
\* keys has a non-empty list, also when there are files and each of them has
\* a type that is left out.
C28_ArtifactsNilIffNothingListed ==
    (Succeeded /\ HasArtifacts) =>
        LET a == res.m.val.Artifacts IN
        /\ a.isNil <=> (a.isNil \/ ListedIn(a.v, DOMAIN a.v) = 0)
        /\ ~a.isNil => DOMAIN a.v # {} /\ \A k \in DOMAIN a.v : a.v[k] # <<>>

=============================================================================
